---- MODULE Spec2Model ----
(***************************************************************************)
(* Sparse tensor storage: the buffers and the specifier that the codegen   *)
(* rules of SparseTensorCodegen.cpp build and update (allocation, ordered  *)
(* insertion, finalization, expand/compress, slice, pack/unpack, dealloc). *)
(* The generated IR is modelled by what it computes when it runs: buffers  *)
(* live in a heap, a descriptor holds the buffer handles and a specifier.  *)
(* Levels and buffer indices are 0-based as in the source; TLA+ sequences  *)
(* are 1-based, so element i of a buffer is data[i + 1].                   *)
(***************************************************************************)
EXTENDS Integers, Sequences, FiniteSets, TLC

VARIABLES cfg, heap, tens, aux, hist

vars == <<cfg, heap, tens, aux, hist>>

\* ------------------------------------------------------------------------
\* Bounds of the model.

\* Inserts per run of the general configurations.
MaxInserts == 3

\* ------------------------------------------------------------------------
\* Level types and tensor types.

\* ShapedType::kDynamic: the marker of a dynamic dimension in a shape.
kDynamic == -1

\* The content of a buffer slot that was allocated and never written.
Junk == -7

\* No buffer: the handle of a field the scheme does not have.
NoBuf == 0

\* No size hint given to the allocation.
NoHint == -1

LT(d, o, u) == [dlt |-> d, ordered |-> o, unique |-> u]

DenseLT == LT("dense", TRUE, TRUE)

CompressedLT == LT("compressed", TRUE, TRUE)

CompressedNuLT == LT("compressed", TRUE, FALSE)

CompressedNoLT == LT("compressed", FALSE, TRUE)

CompressedHiLT == LT("compressed-hi", TRUE, TRUE)

SingletonLT == LT("singleton", TRUE, TRUE)

isDenseDLT(lt) == lt.dlt = "dense"

isCompressedDLT(lt) == lt.dlt = "compressed"

isCompressedWithHiDLT(lt) == lt.dlt = "compressed-hi"

isSingletonDLT(lt) == lt.dlt = "singleton"

\* A tensor type: level types, the shape of the dimensions, and for each
\* level the dimension it stores (toOrigDim), all as 1-based sequences.
STT(lts, shape, l2d) == [lvlTypes |-> lts, dimShape |-> shape, lvlToDim |-> l2d]

getLvlRank(stt) == Len(stt.lvlTypes)

getDimRank(stt) == Len(stt.dimShape)

getLvlType(stt, l) == stt.lvlTypes[l + 1]

isDenseLvl(stt, l) == isDenseDLT(getLvlType(stt, l))

isCompressedLvl(stt, l) == isCompressedDLT(getLvlType(stt, l))

isSingletonLvl(stt, l) == isSingletonDLT(getLvlType(stt, l))

isUniqueLvl(stt, l) == getLvlType(stt, l).unique

isOrderedLvl(stt, l) == getLvlType(stt, l).ordered

isAllDense(stt) == \A l \in 0..(getLvlRank(stt) - 1) : isDenseLvl(stt, l)

toOrigDim(stt, l) == stt.lvlToDim[l + 1] - 1

getNumDynamicDims(stt) ==
  Cardinality({d \in 1..getDimRank(stt) : stt.dimShape[d] = kDynamic})

\* isCOOType(enc, startLvl, isUnique): compressed at startLvl, singleton after.
isCOOType(stt, startLvl, isUnique) ==
  /\ startLvl < getLvlRank(stt)
  /\ \/ isCompressedLvl(stt, startLvl)
     \/ isCompressedWithHiDLT(getLvlType(stt, startLvl))
  /\ \A l \in (startLvl + 1)..(getLvlRank(stt) - 1) : isSingletonLvl(stt, l)
  /\ (isUnique => isUniqueLvl(stt, getLvlRank(stt) - 1))

\* getCOOStart(enc): the first level of a trailing COO region of at least
\* two levels, or the level rank when there is none.
RECURSIVE cooStartFrom(_, _)
cooStartFrom(stt, l) ==
  IF l + 1 >= getLvlRank(stt) THEN getLvlRank(stt)
  ELSE IF isCOOType(stt, l, FALSE) THEN l ELSE cooStartFrom(stt, l + 1)

getCOOStart(stt) == cooStartFrom(stt, 0)

\* getCrdMemRefIndexAndStride(lvl): the level whose coordinate buffer stores
\* level lvl, and the stride of its entries in that buffer (array of
\* structures from the COO start on).
fidxFrom(l, cooStart) == IF l >= cooStart THEN cooStart ELSE l

crdFidx(stt, l) == fidxFrom(l, getCOOStart(stt))

strideFrom(stt, l, cooStart) ==
  IF l >= cooStart THEN getLvlRank(stt) - cooStart ELSE 1

crdStride(stt, l) == strideFrom(stt, l, getCOOStart(stt))

\* ------------------------------------------------------------------------
\* Heap of buffers. A handle is an index of the heap; a buffer records its
\* slots (its length is the capacity) and how often it was released.

Fill(n, v) == [i \in 1..n |-> v]

NewBuf(data) == [data |-> data, frees |-> 0]

capacity(h, id) == Len(h[id].data)

\* The first n slots of a buffer.
Prefix(h, id, n) == [i \in 1..n |-> h[id].data[i]]

\* A variant in which every allocation hands out the last buffer of the
\* heap again.
createAllocation_Shared(h, sz, enableInit) ==
  IF h = <<>> THEN Append(h, NewBuf(Fill(sz, IF enableInit THEN 0 ELSE Junk)))
  ELSE h

\* memref.alloc (+ linalg.fill when buffers are initialized).
createAllocation(h, sz, enableInit) ==
  Append(h, NewBuf(Fill(sz, IF enableInit THEN 0 ELSE Junk)))

\* An access at index idx of buffer id is in bounds of a live buffer.
InBounds(h, id, idx) ==
  /\ id \in 1..Len(h)
  /\ h[id].frees = 0
  /\ idx >= 0
  /\ idx < capacity(h, id)

\* A descriptor with its heap while an operation runs; oob records that some
\* load or store of the operation was out of bounds.
ST(h, d, oob) == [heap |-> h, d |-> d, oob |-> oob]

Touch(s, id, idx) == [s EXCEPT !.oob = @ \/ ~InBounds(s.heap, id, idx)]

genLoad(s, id, idx) ==
  IF InBounds(s.heap, id, idx) THEN s.heap[id].data[idx + 1] ELSE Junk

genStore(s, val, id, idx) ==
  IF InBounds(s.heap, id, idx)
  THEN [s EXCEPT !.heap[id].data[idx + 1] = val]
  ELSE [s EXCEPT !.oob = TRUE]

\* ------------------------------------------------------------------------
\* Descriptors and the storage specifier.

\* SparseTensorSpecifier::getInitValue: every field zero.
getInitValue(stt) ==
  [lvlSz     |-> Fill(getLvlRank(stt), 0),
   posSz     |-> Fill(getLvlRank(stt), 0),
   crdSz     |-> Fill(getLvlRank(stt), 0),
   valSz     |-> 0,
   dimOffset |-> Fill(getDimRank(stt), 0),
   dimStride |-> Fill(getDimRank(stt), 0)]

getPosMemRef(d, l) == d.pos[l + 1]

getCrdMemRef(stt, d, l) == d.crd[crdFidx(stt, l) + 1]

getValMemRef(d) == d.val

getPosMemSize(d, l) == d.spec.posSz[l + 1]

getCrdMemSize(stt, d, l) == d.spec.crdSz[crdFidx(stt, l) + 1]

getValMemSize(d) == d.spec.valSz

getLvlSize(d, l) == d.spec.lvlSz[l + 1]

setLvlSize(d, l, v) == [d EXCEPT !.spec.lvlSz[l + 1] = v]

\* The buffer handle and the occupied length of a field (kind, level).
getMemRefField(stt, d, kind, l) ==
  CASE kind = "pos" -> getPosMemRef(d, l)
    [] kind = "crd" -> getCrdMemRef(stt, d, l)
    [] OTHER -> getValMemRef(d)

getSpecifierField(stt, d, kind, l) ==
  CASE kind = "pos" -> getPosMemSize(d, l)
    [] kind = "crd" -> getCrdMemSize(stt, d, l)
    [] OTHER -> getValMemSize(d)

setMemRefField(stt, d, kind, l, id) ==
  CASE kind = "pos" -> [d EXCEPT !.pos[l + 1] = id]
    [] kind = "crd" -> [d EXCEPT !.crd[crdFidx(stt, l) + 1] = id]
    [] OTHER -> [d EXCEPT !.val = id]

setSpecifierField(stt, d, kind, l, v) ==
  CASE kind = "pos" -> [d EXCEPT !.spec.posSz[l + 1] = v]
    [] kind = "crd" -> [d EXCEPT !.spec.crdSz[crdFidx(stt, l) + 1] = v]
    [] OTHER -> [d EXCEPT !.spec.valSz = v]

\* sizeFromTensorAtLvl: the constant of a static dimension, else the level
\* size held by the specifier.
sizeFromTensorAtLvl(stt, d, l) ==
  LET sh == stt.dimShape[toOrigDim(stt, l) + 1]
  IN IF sh # kDynamic THEN sh ELSE getLvlSize(d, l)

\* ------------------------------------------------------------------------
\* push_back: append value n times at index size of the buffer, growing the
\* capacity by doubling when size + n exceeds it.

RECURSIVE DoubleUntil(_, _)
DoubleUntil(c, need) ==
  IF c >= need \/ c = 0 THEN c ELSE DoubleUntil(2 * c, need)

\* The capacity after growth: doubled once for a single append, doubled
\* until it fits for a repeated append.
NewCapacity(cap, newSize, repeated) ==
  IF repeated THEN DoubleUntil(2 * cap, newSize) ELSE 2 * cap

\* memref.realloc: a new buffer with the old content as prefix; the old
\* buffer is released.
Realloc(h, id, newCap) ==
  LET old == h[id].data
      data == [i \in 1..newCap |-> IF i <= Len(old) THEN old[i] ELSE Junk]
  IN Append([h EXCEPT ![id].frees = @ + 1], NewBuf(data))

\* The append itself: value at the slots from size up to newSize of the
\* buffer out; released tells that the input buffer was not live.
appendValues(h, out, size, newSize, value, released) ==
  [heap |-> [h EXCEPT ![out].data =
               [i \in 1..capacity(h, out) |->
                  IF i > size /\ i <= newSize THEN value
                  ELSE h[out].data[i]]],
   outBuffer |-> out,
   newSize |-> newSize,
   oob |-> newSize > capacity(h, out) \/ released]

\* PushBackOp(curSize, inBuffer, value, n): [heap, outBuffer, newSize, oob].
PushBackOp(h, size, id, value, n, repeated) ==
  IF size + n > capacity(h, id)
  THEN appendValues(Realloc(h, id, NewCapacity(capacity(h, id), size + n,
                                               repeated)),
                    Len(h) + 1, size, size + n, value, h[id].frees # 0)
  ELSE appendValues(h, id, size, size + n, value, h[id].frees # 0)

\* The fields after a push_back pb: the buffer it returned and the new size
\* in the specifier.
pushbackFields(s, stt, kind, l, pb) ==
  ST(pb.heap,
     setSpecifierField(stt, setMemRefField(stt, s.d, kind, l, pb.outBuffer),
                       kind, l, pb.newSize),
     s.oob \/ pb.oob)

createPushbackN(s, stt, kind, l, value, n, repeated) ==
  pushbackFields(s, stt, kind, l,
                 PushBackOp(s.heap, getSpecifierField(stt, s.d, kind, l),
                            getMemRefField(stt, s.d, kind, l), value, n,
                            repeated))

createPushback(s, stt, kind, l, value) ==
  createPushbackN(s, stt, kind, l, value, 1, FALSE)

\* ------------------------------------------------------------------------
\* allocSchemeForRank: prepare the levels from startLvl on for an insertion.

\* A variant that does not compound the sizes of the dense levels.
RECURSIVE allocSchemeLoop_NoCompound(_, _, _, _)
allocSchemeLoop_NoCompound(s, stt, l, linear) ==
  IF l >= getLvlRank(stt)
  THEN createPushbackN(s, stt, "val", 0, 0, linear, TRUE)
  ELSE IF isCompressedLvl(stt, l)
       THEN createPushbackN(s, stt, "pos", l, 0, linear, TRUE)
       ELSE IF isSingletonLvl(stt, l)
            THEN s
            ELSE allocSchemeLoop_NoCompound(s, stt, l + 1, linear)

RECURSIVE allocSchemeLoop(_, _, _, _)
allocSchemeLoop(s, stt, l, linear) ==
  IF l >= getLvlRank(stt)
  THEN \* Reached values array so prepare for an insertion.
       createPushbackN(s, stt, "val", 0, 0, linear, TRUE)
  ELSE IF isCompressedLvl(stt, l)
       THEN \* Append linear x positions, initialized to zero.
            createPushbackN(s, stt, "pos", l, 0, linear, TRUE)
       ELSE IF isSingletonLvl(stt, l)
            THEN s \* nothing to do
            ELSE \* Dense, and without assertions any other level type: keep
                 \* compounding the size.
                 allocSchemeLoop(s, stt, l + 1,
                                 linear * sizeFromTensorAtLvl(stt, s.d, l))

\* A variant that appends no position entries.
allocSchemeForRank_Skip(s, stt, startLvl) == s

allocSchemeForRank(s, stt, startLvl) == allocSchemeLoop(s, stt, startLvl, 1)

\* ------------------------------------------------------------------------
\* createAllocFields: the fields of an empty tensor.

\* The default capacity of a buffer when no size is known.
kDefaultCapacity == 16

RECURSIVE Product(_)
Product(q) == IF q = <<>> THEN 1 ELSE Head(q) * Product(Tail(q))

\* Build original sizes: the next dynamic size for a dynamic dimension, the
\* constant for a static one.
dimSizesOf(stt, dynSizes) ==
  [dd \in 1..getDimRank(stt) |->
     IF stt.dimShape[dd] = kDynamic
     THEN LET i == Cardinality({e \in 1..dd : stt.dimShape[e] = kDynamic})
          IN IF i \in DOMAIN dynSizes THEN dynSizes[i] ELSE Junk
     ELSE stt.dimShape[dd]]

posHeuristic(stt, sizeHint) ==
  IF sizeHint = NoHint THEN kDefaultCapacity
  ELSE IF getCOOStart(stt) = 0 THEN 2
  ELSE IF getDimRank(stt) = 2 /\ isDenseLvl(stt, 0) /\ isCompressedLvl(stt, 1)
       THEN sizeHint + 1
       ELSE kDefaultCapacity

crdHeuristic(stt, sizeHint) ==
  IF sizeHint = NoHint THEN kDefaultCapacity
  ELSE IF getCOOStart(stt) = 0 THEN getDimRank(stt) * sizeHint
  ELSE IF getDimRank(stt) = 2 /\ isDenseLvl(stt, 0) /\ isCompressedLvl(stt, 1)
       THEN sizeHint
       ELSE kDefaultCapacity

valHeuristic(stt, dimSizes, sizeHint) ==
  IF isAllDense(stt) THEN Product(dimSizes)
  ELSE IF sizeHint = NoHint THEN kDefaultCapacity ELSE sizeHint

\* A level has a position buffer, a coordinate buffer of its own.
hasPosField(stt, l) ==
  isCompressedLvl(stt, l) \/ isCompressedWithHiDLT(getLvlType(stt, l))

hasCrdField(stt, l) == ~isDenseLvl(stt, l) /\ crdFidx(stt, l) = l

\* The field (kind, l) becomes the buffer allocated last on heap h.
fieldAllocated(s, stt, kind, l, h) ==
  ST(h, setMemRefField(stt, s.d, kind, l, Len(h)), s.oob)

allocField(s, stt, kind, l, sz, enableInit) ==
  fieldAllocated(s, stt, kind, l, createAllocation(s.heap, sz, enableInit))

\* The position or coordinate buffer of level l, when the level has one.
allocLevelField(s, stt, kind, l, sz, enableInit) ==
  IF (kind = "pos" /\ hasPosField(stt, l)) \/ (kind = "crd" /\ hasCrdField(stt, l))
  THEN allocField(s, stt, kind, l, sz, enableInit)
  ELSE s

\* foreachFieldAndTypeInSparseTensor with createAllocation: per level the
\* position buffer, then the coordinate buffer; the values buffer last.
RECURSIVE allocFieldsLoop(_, _, _, _, _, _, _)
allocFieldsLoop(s, stt, l, posH, crdH, valH, enableInit) ==
  IF l >= getLvlRank(stt)
  THEN allocField(s, stt, "val", 0, valH, enableInit)
  ELSE allocFieldsLoop(
         allocLevelField(allocLevelField(s, stt, "pos", l, posH, enableInit),
                         stt, "crd", l, crdH, enableInit),
         stt, l + 1, posH, crdH, valH, enableInit)

\* A variant that pushes no leading zero.
pushLeadingZero_None(s, stt, l) == s

pushLeadingZero(s, stt, l) ==
  IF isCompressedLvl(stt, l) THEN createPushback(s, stt, "pos", l, 0) ELSE s

\* Sets the level sizes and pushes a leading zero to every positions buffer.
RECURSIVE initLevelsLoop(_, _, _, _)
initLevelsLoop(s, stt, l, dimSizes) ==
  IF l >= getLvlRank(stt) THEN s
  ELSE initLevelsLoop(
         pushLeadingZero([s EXCEPT !.d = setLvlSize(s.d, l,
                                           dimSizes[toOrigDim(stt, l) + 1])],
                         stt, l),
         stt, l + 1, dimSizes)

EmptyDesc(stt) ==
  [spec |-> getInitValue(stt),
   pos  |-> Fill(getLvlRank(stt), NoBuf),
   crd  |-> Fill(getLvlRank(stt), NoBuf),
   val  |-> NoBuf]

\* createAllocFields once the original sizes are built.
allocFieldsOfSizes(h, stt, dimSizes, enableInit, sizeHint) ==
  allocSchemeForRank(
    initLevelsLoop(
      allocFieldsLoop(ST(h, EmptyDesc(stt), FALSE), stt, 0,
                      posHeuristic(stt, sizeHint), crdHeuristic(stt, sizeHint),
                      valHeuristic(stt, dimSizes, sizeHint), enableInit),
      stt, 0, dimSizes),
    stt, 0)

createAllocFields(h, stt, dynSizes, enableInit, sizeHint) ==
  allocFieldsOfSizes(h, stt, dimSizesOf(stt, dynSizes), enableInit, sizeHint)

\* ------------------------------------------------------------------------
\* Insertion.

\* arith.cmpi ult: unsigned comparison of two's complement integers.
ult(a, b) == IF (a < 0) = (b < 0) THEN a < b ELSE b < 0

\* A variant that leaves the lower bound of the parent as it is.
openRange_Skip(s, posId, msz, parentPos, lvl) == s

\* The else branch of the first conditional of genCompressed: the range of
\* the parent is empty; its lower bound is set below level 0 only.
openRange(s, posId, msz, parentPos, lvl) ==
  IF lvl > 0 THEN genStore(s, msz, posId, parentPos) ELSE s

\* A variant that takes the fast path on equality at every level.
isPresent_OnEquality(stt, lvl, eq) == eq

\* The condition of the second conditional of genCompressed: the equality
\* of the last coordinate for a unique level, false for a non-unique one.
isPresent(stt, lvl, eq) == IF isUniqueLvl(stt, lvl) THEN eq ELSE FALSE

\* A variant that takes the occupied length as the number of entries.
entriesOf_Slots(crdMsz, stride) == crdMsz

\* The number of entries a coordinate buffer of crdMsz slots holds.
entriesOf(crdMsz, stride) == IF stride > 1 THEN crdMsz \div stride ELSE crdMsz

\* The slot of entry p in a coordinate buffer.
slotOf(p, stride) == IF stride > 1 THEN p * stride ELSE p

\* A variant that looks for the coordinate in the whole range of the parent.
lastCoordinate_Search(s, stt, lvlCoords, parentPos, lvl, pstart, pstop, msz, crdIdx) ==
  IF ult(pstart, pstop)
  THEN [s  |-> Touch(s, getCrdMemRef(stt, s.d, lvl), crdIdx),
        eq |-> \E k \in pstart..(pstop - 1) :
                 genLoad(s, getCrdMemRef(stt, s.d, lvl),
                         slotOf(k, crdStride(stt, lvl))) = lvlCoords[lvl + 1]]
  ELSE [s  |-> openRange(s, getPosMemRef(s.d, lvl), msz, parentPos, lvl),
        eq |-> FALSE]

\* A variant that takes every range with pstart # pstop as open.
lastCoordinate_NotEqual(s, stt, lvlCoords, parentPos, lvl, pstart, pstop, msz, crdIdx) ==
  IF pstart # pstop
  THEN [s  |-> Touch(s, getCrdMemRef(stt, s.d, lvl), crdIdx),
        eq |-> genLoad(s, getCrdMemRef(stt, s.d, lvl), crdIdx)
                 = lvlCoords[lvl + 1]]
  ELSE [s  |-> openRange(s, getPosMemRef(s.d, lvl), msz, parentPos, lvl),
        eq |-> FALSE]

\* The first conditional of genCompressed: [s, eq], eq telling that the
\* range of the parent is open and its last coordinate is the inserted one.
lastCoordinate(s, stt, lvlCoords, parentPos, lvl, pstart, pstop, msz, crdIdx) ==
  IF ult(pstart, pstop)
  THEN [s  |-> Touch(s, getCrdMemRef(stt, s.d, lvl), crdIdx),
        eq |-> genLoad(s, getCrdMemRef(stt, s.d, lvl), crdIdx)
                 = lvlCoords[lvl + 1]]
  ELSE [s  |-> openRange(s, getPosMemRef(s.d, lvl), msz, parentPos, lvl),
        eq |-> FALSE]

\* A variant that leaves the next level as it is.
prepareNextLvl_None(s, stt, lvl) == s

\* Prepare the next level for the entry appended at level lvl.
prepareNextLvl(s, stt, lvl) ==
  IF lvl + 1 < getLvlRank(stt) THEN allocSchemeForRank(s, stt, lvl + 1) ELSE s

\* The second conditional of genCompressed: [s, pnext].
appendCoordinate(r, stt, lvlCoords, parentPos, lvl, plast, msz) ==
  IF isPresent(stt, lvl, r.eq)
  THEN \* If present (fields unaffected, update pnext to plast).
       [s |-> r.s, pnext |-> plast]
  ELSE \* If !present (changes fields, update pnext).
       [s |-> prepareNextLvl(
                createPushback(genStore(r.s, msz + 1, getPosMemRef(r.s.d, lvl),
                                        parentPos + 1),
                               stt, "crd", lvl, lvlCoords[lvl + 1]),
                stt, lvl),
        pnext |-> msz]

\* genCompressed once pstart, pstop and msz are loaded.
compressedBetween(s, stt, lvlCoords, parentPos, lvl, pstart, pstop, msz) ==
  appendCoordinate(
    lastCoordinate(s, stt, lvlCoords, parentPos, lvl, pstart, pstop, msz,
                   slotOf(pstop - 1, crdStride(stt, lvl))),
    stt, lvlCoords, parentPos, lvl, pstop - 1, msz)

\* The loads of the two position entries of the parent.
touchPositions(s, posId, parentPos) ==
  Touch(Touch(s, posId, parentPos), posId, parentPos + 1)

\* genCompressed: [s, pnext].
genCompressed(s, stt, lvlCoords, parentPos, lvl) ==
  compressedBetween(touchPositions(s, getPosMemRef(s.d, lvl), parentPos),
                    stt, lvlCoords, parentPos, lvl,
                    genLoad(s, getPosMemRef(s.d, lvl), parentPos),
                    genLoad(s, getPosMemRef(s.d, lvl), parentPos + 1),
                    entriesOf(getCrdMemSize(stt, s.d, lvl),
                              crdStride(stt, lvl)))

\* A variant that appends every value.
insertValue_AppendOnly(s, stt, value, parentPos) ==
  createPushback(s, stt, "val", 0, value)

\* A variant that stores every value at the computed position.
insertValue_StoreOnly(s, stt, value, parentPos) ==
  genStore(s, value, getValMemRef(s.d), parentPos)

\* The final step of an insertion: append the value, or store it at the
\* computed position when the last level is dense.
insertValue(s, stt, value, parentPos) ==
  IF ~isDenseLvl(stt, getLvlRank(stt) - 1)
  THEN createPushback(s, stt, "val", 0, value)
  ELSE genStore(s, value, getValMemRef(s.d), parentPos)

\* A variant that ignores the position of the parent.
densePos_NoParent(size, parentPos, crd) == crd

\* The position a dense level hands to the next level.
densePos(size, parentPos, crd) == size * parentPos + crd

RECURSIVE insertLoop(_, _, _, _, _, _)
RECURSIVE insertBelow(_, _, _, _, _)
\* The levels below a compressed level l, from the result r of genCompressed.
insertBelow(r, stt, lvlCoords, value, l) ==
  insertLoop(r.s, stt, lvlCoords, value, r.pnext, l + 1)

insertLoop(s, stt, lvlCoords, value, parentPos, l) ==
  IF l >= getLvlRank(stt) THEN insertValue(s, stt, value, parentPos)
  ELSE IF isCompressedLvl(stt, l)
       THEN insertBelow(genCompressed(s, stt, lvlCoords, parentPos, l), stt,
                        lvlCoords, value, l)
       ELSE IF isSingletonLvl(stt, l)
            THEN insertLoop(createPushback(s, stt, "crd", l, lvlCoords[l + 1]),
                            stt, lvlCoords, value, parentPos, l + 1)
            ELSE insertLoop(s, stt, lvlCoords, value,
                            densePos(sizeFromTensorAtLvl(stt, s.d, l),
                                     parentPos, lvlCoords[l + 1]),
                            l + 1)

\* SparseInsertGenerator::genImplementation.
genImplementation(s, stt, lvlCoords, value) ==
  insertLoop(s, stt, lvlCoords, value, 0, 0)

\* ------------------------------------------------------------------------
\* genEndInsert: the position cleanup of the compressed levels below level 0.

\* A variant that never updates the carried value.
RECURSIVE cleanupLoop_NoCarry(_, _, _, _, _)
cleanupLoop_NoCarry(s, posId, i, hi, oldv) ==
  IF i >= hi THEN s
  ELSE IF genLoad(s, posId, i) = 0
       THEN cleanupLoop_NoCarry(genStore(Touch(s, posId, i), oldv, posId, i),
                                posId, i + 1, hi, oldv)
       ELSE cleanupLoop_NoCarry(Touch(s, posId, i), posId, i + 1, hi, oldv)

\* A variant that stores the carried value to every slot.
RECURSIVE cleanupLoop_NoZeroTest(_, _, _, _, _)
cleanupLoop_NoZeroTest(s, posId, i, hi, oldv) ==
  IF i >= hi THEN s
  ELSE cleanupLoop_NoZeroTest(genStore(Touch(s, posId, i), oldv, posId, i),
                              posId, i + 1, hi, genLoad(s, posId, i))

RECURSIVE cleanupLoop(_, _, _, _, _)
cleanupLoop(s, posId, i, hi, oldv) ==
  IF i >= hi THEN s
  ELSE LET newv == genLoad(s, posId, i)
           s1 == Touch(s, posId, i)
       IN IF newv = 0
          THEN cleanupLoop(genStore(s1, oldv, posId, i), posId, i + 1, hi, oldv)
          ELSE cleanupLoop(s1, posId, i + 1, hi, newv)

\* A variant that cleans up no level.
needsCleanup_Never(stt, l) == FALSE

needsCleanup(stt, l) == isCompressedLvl(stt, l) /\ l > 0

RECURSIVE endInsertLoop(_, _, _)
endInsertLoop(s, stt, l) ==
  IF l >= getLvlRank(stt) THEN s
  ELSE IF needsCleanup(stt, l)
       THEN LET posMemRef == getPosMemRef(s.d, l)
                hi == getPosMemSize(s.d, l)
                s1 == Touch(s, posMemRef, 0)
            IN endInsertLoop(cleanupLoop(s1, posMemRef, 1, hi,
                                         genLoad(s, posMemRef, 0)),
                             stt, l + 1)
       ELSE endInsertLoop(s, stt, l + 1)

\* genEndInsert stops on a compressed-with-hi level (llvm_unreachable).
endInsertStops(stt) ==
  \E l \in 0..(getLvlRank(stt) - 1) : isCompressedWithHiDLT(getLvlType(stt, l))

genEndInsert(s, stt) == endInsertLoop(s, stt, 0)

\* ------------------------------------------------------------------------
\* Configurations: the tensor type of a run and the inputs it draws from.

Ident(n) == [i \in 1..n |-> i]

\* Finalizations (sparse_tensor.load with inserts) per run.
MaxLoads == 2

\* Dynamic sizes handed to an allocation: at most MaxDynSizes of them.
MaxDynSizes == 2

CFG(lts, shape, vals, maxIns) ==
  [stt |-> STT(lts, shape, Ident(Len(lts))),
   vals |-> [k \in 1..maxIns |-> vals],
   maxIns |-> maxIns]

\* CSR, DCSR, a sparse vector, COO, non-unique CSR, compressed-dense,
\* all-dense, CSR with a dynamic dimension, and a rank-3 scheme.
InsertConfigs ==
  { CFG(<<DenseLT, CompressedLT>>, <<2, 2>>, {1}, MaxInserts),
    CFG(<<CompressedLT, CompressedLT>>, <<2, 2>>, {1}, MaxInserts),
    CFG(<<CompressedLT>>, <<3>>, {1}, MaxInserts),
    CFG(<<CompressedNuLT, SingletonLT>>, <<2, 2>>, {1}, MaxInserts),
    CFG(<<DenseLT, CompressedNuLT>>, <<2, 2>>, {1}, MaxInserts),
    CFG(<<CompressedLT, DenseLT>>, <<2, 2>>, {1}, MaxInserts),
    CFG(<<DenseLT, DenseLT>>, <<2, 3>>, {1}, MaxInserts),
    CFG(<<DenseLT, CompressedLT>>, <<kDynamic, 2>>, {1}, MaxInserts),
    CFG(<<CompressedLT, CompressedNuLT>>, <<2, 2>>, {1}, MaxInserts),
    CFG(<<CompressedLT, DenseLT, CompressedLT>>, <<2, 2, 1>>, {1}, MaxInserts) }

\* Configurations that outgrow the default capacity: more parents than the
\* capacity of the positions buffer, more appends than the capacity of the
\* coordinates and values buffers, and a repeated append past the capacity
\* of the values buffer.
CapacityConfigs ==
  { CFG(<<DenseLT, CompressedLT>>, <<kDefaultCapacity + 1, 1>>, {1}, 2),
    CFG(<<CompressedNuLT>>, <<1>>, {1}, kDefaultCapacity + 1),
    CFG(<<CompressedLT, DenseLT>>, <<2, 9>>, {1}, 2) }

\* Rows built by expansion: values accumulated per run, and compressions.
MaxAccs == 3

MaxCompress == 1

\* Configurations of the runs with expand and compress: an ordered and an
\* unordered innermost level; the k-th accumulated value is k.
ScatterConfigs ==
  { [CFG(lts, <<2, 3>>, {}, MaxAccs) EXCEPT !.vals = [k \in 1..MaxAccs |-> {k}]] :
      lts \in {<<DenseLT, CompressedLT>>, <<DenseLT, CompressedNoLT>>} }

\* Entries per batch of a packed coordinate list.
MaxNse == 2

\* The values a packed coordinate list may hold.
PackValues == {0, 1}

PCFG(lts, shape, batched) ==
  [stt |-> STT(lts, shape, Ident(Len(lts))), batched |-> batched]

\* Configurations of the runs with pack and unpack: a sparse vector, COO,
\* and batched COO with single-offset and with hi/lo-pair positions.
PackConfigs ==
  { PCFG(<<CompressedLT>>, <<3>>, 0),
    PCFG(<<CompressedNuLT, SingletonLT>>, <<2, 2>>, 0),
    PCFG(<<DenseLT, CompressedNuLT, SingletonLT>>, <<2, 2, 2>>, 1),
    PCFG(<<DenseLT, CompressedHiLT, SingletonLT>>, <<2, 2, 2>>, 1) }

\* Configurations of the runs with slices and deallocations.
SliceConfigs ==
  { CFG(<<DenseLT, CompressedLT>>, <<2, 2>>, {1}, 2),
    CFG(<<CompressedNuLT, SingletonLT>>, <<2, 2>>, {1}, 1) }

\* The concrete scenario: a 3x3 matrix in CSR, values 1..3, three inserts.
\* The 3x3 matrix of the scenario: any three coordinates, the k-th insert
\* carrying the value k.
ScenarioConfigs ==
  { [CFG(<<DenseLT, CompressedLT>>, <<3, 3>>, {}, 3)
       EXCEPT !.vals = <<{1}, {2}, {3}>>] }

\* Sequences of dynamic sizes an allocation may be handed.
DynSizeChoices == {Fill(n, 2) : n \in 0..MaxDynSizes}

\* ------------------------------------------------------------------------
\* State: the configuration, the heap, the tensors by handle (t: the tensor
\* under construction, v: a slice view of t, p: a packed tensor), the
\* values the caller holds besides tensors (aux), and the history of the run.

NoTensor == [state |-> "none", d |-> <<>>]

Live(x) == x.state = "live"

\* exp: the scratch buffers of an expansion; in: the arrays given to pack;
\* out: the results of unpack; ops: the operations applied to each of two
\* independent tensors; rd: the reader of a file being loaded.
NoAux ==
  [exp |-> <<>>, in |-> <<>>, out |-> <<>>, ops |-> [t |-> <<>>, u |-> <<>>],
   rd |-> <<>>]

InitHist ==
  [log |-> <<>>, oob |-> FALSE, pre |-> <<>>, pre2 |-> <<>>]

InitWith(configs) ==
  /\ cfg \in configs
  /\ heap = <<>>
  /\ tens = [t |-> NoTensor, v |-> NoTensor, p |-> NoTensor, c |-> NoTensor,
             u |-> NoTensor]
  /\ aux = NoAux
  /\ hist = InitHist

Init == InitWith(InsertConfigs)

InitScenario == InitWith(ScenarioConfigs)

InitCapacity == InitWith(CapacityConfigs \cup InsertConfigs)

\* What the log says.
Inserts(log) == SelectSeq(log, LAMBDA e : e.op = "insert")

Loads(log) == SelectSeq(log, LAMBDA e : e.op = "endInsert")

LastOp(log) == IF log = <<>> THEN "none" ELSE log[Len(log)].op

Snapshot == [heap |-> heap, d |-> tens.t.d]

Record(e, oob) ==
  hist' = [log |-> Append(hist.log, e),
           oob |-> hist.oob \/ oob,
           pre |-> Snapshot,
           pre2 |-> hist.pre]

\* SparseTensorAllocConverter::matchAndRewrite without a copy operand: the
\* number of dynamic sizes is checked, then the fields are allocated.
\* A variant that accepts any number of dynamic sizes.
allocMatches_Always(stt, dynSizes) == TRUE

allocMatches(stt, dynSizes) == Len(dynSizes) = getNumDynamicDims(stt)

Alloc(dynSizes, sizeHint, enableInit) ==
  /\ tens.t.state = "none"
  /\ IF ~allocMatches(cfg.stt, dynSizes)
     THEN /\ tens' = [tens EXCEPT !.t = [state |-> "failed", d |-> <<>>]]
          /\ UNCHANGED heap
          /\ hist' = [hist EXCEPT !.log = Append(@, [op |-> "allocFailed",
                                                   dyn |-> dynSizes])]
     ELSE LET s == createAllocFields(heap, cfg.stt, dynSizes, enableInit,
                                     sizeHint)
          IN /\ heap' = s.heap
             /\ tens' = [tens EXCEPT !.t = [state |-> "live", d |-> s.d]]
             /\ hist' = [hist EXCEPT !.log = Append(@, [op |-> "alloc",
                                                      dyn |-> dynSizes,
                                                      hint |-> sizeHint]),
                                     !.oob = @ \/ s.oob]
  /\ UNCHANGED <<cfg, aux>>

\* The level coordinates an insert may be given: in range at every level.
MaxOf(S) == CHOOSE x \in S : \A y \in S : y <= x

LvlCoords(stt, d) ==
  LET m == MaxOf({getLvlSize(d, l) : l \in 0..(getLvlRank(stt) - 1)})
  IN {c \in [1..getLvlRank(stt) -> 0..(m - 1)] :
        \A l \in 0..(getLvlRank(stt) - 1) : c[l + 1] < getLvlSize(d, l)}

\* SparseInsertConverter: sparse_tensor.insert.
Insert(lvlCoords, value) ==
  /\ Live(tens.t)
  /\ Len(Inserts(hist.log)) < cfg.maxIns
  /\ LET s == genImplementation(ST(heap, tens.t.d, FALSE), cfg.stt, lvlCoords,
                                value)
     IN /\ heap' = s.heap
        /\ tens' = [tens EXCEPT !.t.d = s.d]
        /\ Record([op |-> "insert", c |-> lvlCoords, v |-> value], s.oob)
  /\ UNCHANGED <<cfg, aux>>

\* SparseTensorLoadConverter with hasInserts: sparse_tensor.load.
EndInsert ==
  /\ Live(tens.t)
  /\ ~endInsertStops(cfg.stt)
  /\ Len(Loads(hist.log)) < MaxLoads
  /\ LastOp(hist.log) # "endInsert"
  /\ LET s == genEndInsert(ST(heap, tens.t.d, FALSE), cfg.stt)
     IN /\ heap' = s.heap
        /\ tens' = [tens EXCEPT !.t.d = s.d]
        /\ Record([op |-> "endInsert"], s.oob)
  /\ UNCHANGED <<cfg, aux>>

\* ------------------------------------------------------------------------
\* SparseExtractSliceConverter: tensor.extract_slice.

setSpecifier(d, spec) == [d EXCEPT !.spec = spec]

\* StorageSpecifierInitOp with a source: a new specifier holding the fields
\* of the source.
StorageSpecifierInitOp(spec) == spec

\* The three setSpecifierField calls of one dimension: DimOffset, LvlSize
\* and DimStride.
setSliceFields(d, dim, triple) ==
  [d EXCEPT !.spec.dimOffset[dim + 1] = triple[1],
            !.spec.lvlSz[dim + 1] = triple[2],
            !.spec.dimStride[dim + 1] = triple[3]]

RECURSIVE sliceLoop(_, _, _)
sliceLoop(d, triples, dim) ==
  IF dim >= Len(triples) THEN d
  ELSE sliceLoop(setSliceFields(d, dim, triples[dim + 1]), triples, dim + 1)

\* A variant that fills the slice information into the specifier of the
\* source.
extractSlice_InPlace(d, triples) ==
  [source |-> sliceLoop(d, triples, 0), result |-> sliceLoop(d, triples, 0)]

\* The source as it is left and the result: the fields of the source with
\* a new specifier. triples[dim + 1] is (offset, size, stride) of dim.
extractSlice(d, triples) ==
  [source |-> d,
   result |-> sliceLoop(setSpecifier(d, StorageSpecifierInitOp(d.spec)),
                        triples, 0)]

\* The (offset, size, stride) triples a slice may be given per dimension.
SliceTriples == {<<0, 2, 1>>, <<1, 1, 1>>, <<0, 1, 2>>}

Slice(triples) ==
  /\ Live(tens.t)
  /\ tens.v.state = "none"
  /\ LET r == extractSlice(tens.t.d, triples)
     IN tens' = [tens EXCEPT !.t.d = r.source,
                             !.v = [state |-> "live", d |-> r.result]]
  /\ Record([op |-> "slice", s |-> triples], FALSE)
  /\ UNCHANGED <<cfg, heap, aux>>

SliceAny ==
  /\ Live(tens.t)
  /\ \E triples \in [1..getDimRank(cfg.stt) -> SliceTriples] : Slice(triples)

\* ------------------------------------------------------------------------
\* SparseTensorDeallocConverter: bufferization.dealloc_tensor.

\* desc.getMemRefFields(): the buffers of a descriptor.
getMemRefFields(d) ==
  ({d.pos[i] : i \in DOMAIN d.pos} \cup {d.crd[i] : i \in DOMAIN d.crd}
     \cup {d.val}) \ {NoBuf}

\* memref.dealloc of every buffer of ids.
deallocOps(h, ids) ==
  [id \in DOMAIN h |->
     IF id \in ids THEN [h[id] EXCEPT !.frees = @ + 1] ELSE h[id]]

\* The buffers the rule releases for descriptor d.
deallocTensor(h, d, createDeallocs) ==
  IF createDeallocs THEN deallocOps(h, getMemRefFields(d)) ELSE h

Handles == {"t", "v", "p"}

\* Each handle is deallocated at most once: the operation ends its life.
Dealloc(hd, createDeallocs) ==
  /\ Live(tens[hd])
  /\ heap' = deallocTensor(heap, tens[hd].d, createDeallocs)
  /\ tens' = [tens EXCEPT ![hd].state = "dead"]
  /\ Record([op |-> "dealloc", h |-> hd, frees |-> createDeallocs], FALSE)
  /\ UNCHANGED <<cfg, aux>>

DeallocAny ==
  \E hd \in Handles : \E createDeallocs \in BOOLEAN :
    Dealloc(hd, createDeallocs)

\* ------------------------------------------------------------------------
\* SparseExpandConverter and SparseCompressConverter: the access pattern
\* expansion of one innermost level.

\* sparse_tensor.expand: three buffers of the size of the innermost stored
\* level, values and filled reset to zero and false (0), and the count 0.
expandBuffers(h, sz) ==
  LET h1 == createAllocation(h, sz, TRUE)
      h2 == createAllocation(h1, sz, TRUE)
      h3 == createAllocation(h2, sz, FALSE)
  IN [heap |-> h3,
      exp |-> [values |-> Len(h1), filled |-> Len(h2), added |-> Len(h3),
               count |-> 0]]

Expand ==
  /\ Live(tens.t)
  /\ aux.exp = <<>>
  /\ LET r == expandBuffers(heap, sizeFromTensorAtLvl(cfg.stt, tens.t.d,
                                     getLvlRank(cfg.stt) - 1))
     IN /\ heap' = r.heap
        /\ aux' = [aux EXCEPT !.exp = r.exp]
  /\ Record([op |-> "expand"], FALSE)
  /\ UNCHANGED <<cfg, tens>>

\* The caller's update of the expanded access pattern for coordinate crd:
\* accumulate the value, and on the first visit set the filled switch and
\* append the coordinate to added.
accumulate(s, exp, crd, value) ==
  LET s1 == genStore(s, genLoad(s, exp.values, crd) + value, exp.values, crd)
  IN IF genLoad(s1, exp.filled, crd) = 0
     THEN [s |-> genStore(genStore(s1, 1, exp.filled, crd), crd, exp.added,
                          exp.count),
           exp |-> [exp EXCEPT !.count = @ + 1]]
     ELSE [s |-> s1, exp |-> exp]

Accs(log) == SelectSeq(log, LAMBDA e : e.op = "acc")

Accumulate(crd, value) ==
  /\ LET r == accumulate(ST(heap, tens.t.d, FALSE), aux.exp, crd, value)
     IN /\ heap' = r.s.heap
        /\ aux' = [aux EXCEPT !.exp = r.exp]
        /\ Record([op |-> "acc", c |-> crd, v |-> value], r.s.oob)
  /\ UNCHANGED <<cfg, tens>>

AccumulateAny ==
  /\ Live(tens.t)
  /\ aux.exp # <<>>
  /\ Len(Accs(hist.log)) < cfg.maxIns
  /\ \E crd \in 0..(getLvlSize(tens.t.d, getLvlRank(cfg.stt) - 1) - 1) :
       \E v \in cfg.vals[Len(Accs(hist.log)) + 1] : Accumulate(crd, v)

\* Ascending order of a sequence of integers.
RECURSIVE SortAsc(_)
SortAsc(q) ==
  IF q = <<>> THEN q
  ELSE LET m == CHOOSE i \in 1..Len(q) : \A j \in 1..Len(q) : q[i] <= q[j]
       IN <<q[m]>> \o SortAsc([i \in 1..(Len(q) - 1) |->
                                  IF i < m THEN q[i] ELSE q[i + 1]])

\* sparse_tensor.sort of added[0..count).
SortOp(h, count, added) ==
  LET n == IF count <= capacity(h, added) THEN count ELSE capacity(h, added)
      sorted == SortAsc(Prefix(h, added, n))
  IN [h EXCEPT ![added].data =
        [i \in 1..capacity(h, added) |-> IF i <= n THEN sorted[i] ELSE @[i]]]

\* A variant that leaves added in arrival order.
sortAdded_None(h, stt, exp) == h

\* If the innermost level is ordered, sort the coordinates in added.
sortAdded(h, stt, exp) ==
  IF isOrderedLvl(stt, getLvlRank(stt) - 1)
  THEN SortOp(h, exp.count, exp.added) ELSE h

\* A variant of the loop that leaves the filled switch set.
RECURSIVE compressLoop_NoReset(_, _, _, _, _)
compressLoop_NoReset(s, stt, exp, lvlCoords, i) ==
  IF i >= exp.count THEN s
  ELSE LET crd == genLoad(s, exp.added, i)
           value == genLoad(s, exp.values, crd)
           s0 == Touch(Touch(s, exp.added, i), exp.values, crd)
           s1 == genImplementation(s0, stt, Append(lvlCoords, crd), value)
           s2 == genStore(s1, 0, exp.values, crd)
       IN compressLoop_NoReset(s2, stt, exp, lvlCoords, i + 1)

\* The loop of the compression: insert, then reset values and filled.
RECURSIVE compressLoop(_, _, _, _, _)
compressLoop(s, stt, exp, lvlCoords, i) ==
  IF i >= exp.count THEN s
  ELSE LET crd == genLoad(s, exp.added, i)
           value == genLoad(s, exp.values, crd)
           s0 == Touch(Touch(s, exp.added, i), exp.values, crd)
           s1 == genImplementation(s0, stt, Append(lvlCoords, crd), value)
           s2 == genStore(s1, 0, exp.values, crd)
           s3 == genStore(s2, 0, exp.filled, crd)
       IN compressLoop(s3, stt, exp, lvlCoords, i + 1)

compress(s, stt, exp, lvlCoords) ==
  compressLoop([s EXCEPT !.heap = sortAdded(s.heap, stt, exp)], stt, exp,
               lvlCoords, 0)

Compresses(log) == SelectSeq(log, LAMBDA e : e.op = "compress")

\* sparse_tensor.compress for the row at lvlCoords; the caller starts the
\* next row with count 0.
Compress(lvlCoords) ==
  /\ LET s == compress(ST(heap, tens.t.d, FALSE), cfg.stt, aux.exp, lvlCoords)
     IN /\ heap' = s.heap
        /\ tens' = [tens EXCEPT !.t.d = s.d]
        /\ Record([op |-> "compress", c |-> lvlCoords], s.oob)
  /\ aux' = [aux EXCEPT !.exp.count = 0]
  /\ UNCHANGED cfg

CompressAny ==
  /\ Live(tens.t)
  /\ aux.exp # <<>>
  /\ Len(Compresses(hist.log)) < MaxCompress
  /\ \E c \in LvlCoords(cfg.stt, tens.t.d) :
       Compress(SubSeq(c, 1, getLvlRank(cfg.stt) - 1))

\* ------------------------------------------------------------------------
\* SparsePackOpConverter: sparse_tensor.pack.

\* The number of batches: the product of the sizes of the batched levels.
batchedCount(stt, batchedLvls) ==
  Product([i \in 1..batchedLvls |-> stt.dimShape[i]])

\* A variant that leaves every position of a compressed level at zero.
posCompressed_Zero(h, posId, nse, i, count) ==
  IF i > count THEN h
  ELSE [h EXCEPT ![posId].data = [k \in 1..(count + 1) |-> 0]]

\* The position array of a compressed level: [0, nse, ..., count * nse].
RECURSIVE posCompressed(_, _, _, _, _)
posCompressed(h, posId, nse, i, count) ==
  IF i > count THEN h
  ELSE posCompressed([h EXCEPT ![posId].data[i + 1] = nse * i], posId, nse,
                     i + 1, count)

\* A variant that keeps the trailing zero values.
trailingLen_Full(h, valId, base, len) == len

\* The while loop of populateCompressedWithHiPosArray: the length of the
\* batch at base without its trailing zero values.
RECURSIVE trailingLen(_, _, _, _)
trailingLen(h, valId, base, len) ==
  IF len = 0 THEN len
  ELSE IF h[valId].data[base + (len - 1) + 1] = 0
       THEN trailingLen(h, valId, base, len - 1)
       ELSE len

\* populateCompressedWithHiPosArray: per batch the pair (pLo, pHi).
RECURSIVE populateCompressedWithHiPosArray(_, _, _, _, _, _)
populateCompressedWithHiPosArray(h, posId, valId, nse, crd, count) ==
  IF crd >= count THEN h
  ELSE LET pLo == crd * nse
           pHi == pLo + trailingLen(h, valId, pLo, nse)
           h1 == [h EXCEPT ![posId].data[crd * 2 + 1] = pLo,
                           ![posId].data[crd * 2 + 2] = pHi]
       IN populateCompressedWithHiPosArray(h1, posId, valId, nse, crd + 1,
                                           count)

\* The position field of the packed tensor: allocated and filled.
packPositions(h, stt, batchedLvls, valId, nse) ==
  LET count == batchedCount(stt, batchedLvls)
  IN IF isCompressedLvl(stt, batchedLvls)
     THEN LET h1 == createAllocation(h, count + 1, FALSE)
              h2 == [h1 EXCEPT ![Len(h1)].data[1] = 0]
          IN posCompressed(h2, Len(h1), nse, 1, count)
     ELSE LET h1 == createAllocation(h, count * 2, FALSE)
          IN populateCompressedWithHiPosArray(h1, Len(h1), valId, nse, 0,
                                              count)

\* The loop over the levels that sets the sizes of the specifier.
RECURSIVE packSizesLoop(_, _, _, _)
packSizesLoop(d, stt, noe, lvl) ==
  IF lvl >= getLvlRank(stt) THEN d
  ELSE LET d1 == setLvlSize(d, lvl, stt.dimShape[lvl + 1])
           d2 == IF lvl = 0 THEN setSpecifierField(stt, d1, "pos", lvl, 2)
                 ELSE d1
           d3 == setSpecifierField(stt, d2, "crd", lvl, noe)
       IN packSizesLoop(d3, stt, noe, lvl + 1)

\* The descriptor of the packed tensor over the buffers valId and crdId of
\* the caller: [heap, d]. noe is the size of dimension 0 of the values.
packOp(h, stt, batchedLvls, valId, crdId, nse) ==
  LET h1 == packPositions(h, stt, batchedLvls, valId, nse)
      noe == IF batchedLvls = 0 THEN nse ELSE stt.dimShape[1]
      d0 == [EmptyDesc(stt) EXCEPT
               !.pos[batchedLvls + 1] = Len(h1),
               !.crd[crdFidx(stt, batchedLvls) + 1] = crdId,
               !.val = valId]
      d1 == packSizesLoop(d0, stt, noe, 0)
  IN [heap |-> h1, d |-> setSpecifierField(stt, d1, "val", 0, noe)]

\* The arrays of the caller enter the heap as two buffers, then the pack.
Pack(values, coordinates, nse) ==
  /\ tens.p.state = "none"
  /\ LET h1 == Append(heap, NewBuf(values))
         h2 == Append(h1, NewBuf(coordinates))
         r == packOp(h2, cfg.stt, cfg.batched, Len(h1), Len(h2), nse)
     IN /\ heap' = r.heap
        /\ tens' = [tens EXCEPT !.p = [state |-> "live", d |-> r.d]]
        /\ aux' = [aux EXCEPT !.in = [values |-> values,
                                      coordinates |-> coordinates,
                                      nse |-> nse,
                                      valId |-> Len(h1), crdId |-> Len(h2)]]
  /\ Record([op |-> "pack"], FALSE)
  /\ UNCHANGED cfg

\* ------------------------------------------------------------------------
\* SparseUnpackOpConverter: sparse_tensor.unpack.

\* A variant that reallocates for every length.
reallocOrSubView_Always(h, len, id) ==
  [heap |-> Realloc(h, id, len), id |-> Len(h) + 1]

\* reallocOrSubView: a buffer of length len, reallocated when len is larger
\* than the buffer, else a view of its first len slots: [heap, id].
reallocOrSubView(h, len, id) ==
  IF len > capacity(h, id)
  THEN [heap |-> Realloc(h, id, len), id |-> Len(h) + 1]
  ELSE [heap |-> h, id |-> id]

\* desc.getAOSMemRef(): the coordinate buffer of the COO region.
getAOSMemRef(stt, d) == d.crd[getCOOStart(stt) + 1]

\* The flat coordinate buffer the unpack reads: the coordinates of level 0
\* when one level is unpacked, else the buffer of the COO region.
flatCrds(stt, d, rank) ==
  IF rank = 1 THEN getCrdMemRef(stt, d, 0) ELSE getAOSMemRef(stt, d)

\* genUnBatchedUnpackOp for results of static shape [len] and [len, rank].
genUnBatchedUnpackOp(h, stt, d, len) ==
  LET v == reallocOrSubView(h, len, getValMemRef(d))
      c == reallocOrSubView(v.heap, len * getLvlRank(stt),
                            flatCrds(stt, d, getLvlRank(stt)))
  IN [heap |-> c.heap,
      out |-> [values |-> Prefix(c.heap, v.id, len),
               coordinates |-> Prefix(c.heap, c.id, len * getLvlRank(stt)),
               nse |-> getValMemSize(d)],
      oob |-> FALSE]

\* A variant that copies nothing.
copyOp_None(h, src, srcLo, dst, dstLo, n) == h

\* memref.copy of n slots from src at srcLo to dst at dstLo.
copyOp(h, src, srcLo, dst, dstLo, n) ==
  [h EXCEPT ![dst].data =
     [i \in 1..capacity(h, dst) |->
        IF i - 1 >= dstLo /\ i - 1 < dstLo + n
        THEN IF InBounds(h, src, i - 1 - dstLo + srcLo)
             THEN h[src].data[i - dstLo + srcLo] ELSE Junk
        ELSE @[i]]]

\* The body of the loop nest of genBatchedUnpackOp for the batches from
\* lin on; nseOut and rank are the trailing sizes of the result shapes.
RECURSIVE unpackLoop(_, _, _, _, _, _, _, _, _, _, _)
unpackLoop(s, stt, posId, posStep, lin, count, nseOut, rank, valOut, crdOut, max) ==
  IF lin >= count THEN [s |-> s, nse |-> max]
  ELSE LET positLo == lin * posStep
           positHi == positLo + 1
           pLo == genLoad(s, posId, positLo)
           pHi == genLoad(s, posId, positHi)
           nse == pHi - pLo
           fits == nse >= 0 /\ nse <= nseOut
                     /\ InBounds(s.heap, posId, positLo)
                     /\ InBounds(s.heap, posId, positHi)
           h1 == IF fits
                 THEN copyOp(s.heap, getValMemRef(s.d), pLo, valOut,
                             lin * nseOut, nse)
                 ELSE s.heap
           h2 == IF fits
                 THEN copyOp(h1, flatCrds(stt, s.d, rank), pLo * rank, crdOut,
                             lin * nseOut * rank, nse * rank)
                 ELSE h1
       IN unpackLoop(ST(h2, s.d, s.oob \/ ~fits), stt, posId, posStep, lin + 1,
                     count, nseOut, rank, valOut, crdOut,
                     IF ult(max, nse) THEN nse ELSE max)

\* genBatchedUnpackOp for results of static shape [.., nseOut] and
\* [.., nseOut, rank]: zeroed result buffers, filled batch by batch.
genBatchedUnpackOp(h, stt, d, nBatched, nseOut) ==
  LET count == batchedCount(stt, nBatched)
      rank == getLvlRank(stt) - nBatched
      h1 == createAllocation(h, count * nseOut, TRUE)
      h2 == createAllocation(h1, count * nseOut * rank, TRUE)
      posStep == IF isCompressedLvl(stt, nBatched) THEN 1 ELSE 2
      r == unpackLoop(ST(h2, d, FALSE), stt, getPosMemRef(d, nBatched),
                      posStep, 0, count, nseOut, rank, Len(h1), Len(h2), 0)
  IN [heap |-> r.s.heap,
      out |-> [values |-> r.s.heap[Len(h1)].data,
               coordinates |-> r.s.heap[Len(h2)].data,
               nse |-> r.nse],
      oob |-> r.s.oob]

\* The unpack of tensor d, then the release of its position buffer.
unpackOp(h, stt, d, nBatched, len, createDeallocs) ==
  LET r == IF nBatched = 0 THEN genUnBatchedUnpackOp(h, stt, d, len)
           ELSE genBatchedUnpackOp(h, stt, d, nBatched, len)
  IN [r EXCEPT !.heap = IF createDeallocs
                        THEN deallocOps(@, {getPosMemRef(d, nBatched)})
                        ELSE @]

\* len: the length the results are requested with.
Unpack(len, createDeallocs) ==
  /\ Live(tens.p)
  /\ LET r == unpackOp(heap, cfg.stt, tens.p.d, cfg.batched, len,
                       createDeallocs)
     IN /\ heap' = r.heap
        /\ aux' = [aux EXCEPT !.out = r.out]
        /\ Record([op |-> "unpack", len |-> len], r.oob)
  /\ tens' = [tens EXCEPT !.p.state = "dead"]
  /\ UNCHANGED cfg

\* The coordinate lists a pack may be given: per batch nse tuples of the
\* unpacked levels, in range, unique and ascending; flattened row-major.
LexLT(a, b) ==
  \E i \in 1..Len(a) : a[i] < b[i] /\ \A j \in 1..(i - 1) : a[j] = b[j]

CrdTuples(stt, nBatched) ==
  LET rank == getLvlRank(stt) - nBatched
      m == MaxOf({stt.dimShape[nBatched + j] : j \in 1..rank})
  IN {c \in [1..rank -> 0..(m - 1)] :
        \A j \in 1..rank : c[j] < stt.dimShape[nBatched + j]}

AscLists(stt, nBatched, nse) ==
  {q \in [1..nse -> CrdTuples(stt, nBatched)] :
     \A i \in 1..(nse - 1) : LexLT(q[i], q[i + 1])}

FlatCrds(lists, nse, rank) ==
  [i \in 1..(Len(lists) * nse * rank) |->
     lists[((i - 1) \div (nse * rank)) + 1]
          [(((i - 1) \div rank) % nse) + 1]
          [((i - 1) % rank) + 1]]

PackAny ==
  /\ tens.p.state = "none"
  /\ \E nse \in 0..MaxNse :
       LET count == batchedCount(cfg.stt, cfg.batched)
           rank == getLvlRank(cfg.stt) - cfg.batched
       IN \E values \in [1..(count * nse) -> PackValues] :
            \E lists \in [1..count -> AscLists(cfg.stt, cfg.batched, nse)] :
              Pack(values, FlatCrds(lists, nse, rank), nse)

\* The results are requested with the shape of the packed arrays, or, for
\* an unbatched tensor, also with one entry more or less.
UnpackAny ==
  /\ Live(tens.p)
  /\ \E len \in IF cfg.batched = 0
                 THEN {aux.in.nse, aux.in.nse + 1} \cup ({aux.in.nse - 1} \ {0 - 1})
                 ELSE {aux.in.nse} :
       \E createDeallocs \in BOOLEAN : Unpack(len, createDeallocs)

AllocAny ==
  \E dynSizes \in DynSizeChoices : Alloc(dynSizes, NoHint, FALSE)

InsertAny ==
  /\ Live(tens.t)
  /\ Len(Inserts(hist.log)) < cfg.maxIns
  /\ \E c \in LvlCoords(cfg.stt, tens.t.d) :
       \E v \in cfg.vals[Len(Inserts(hist.log)) + 1] : Insert(c, v)

Next == AllocAny \/ InsertAny \/ EndInsert

Spec == Init /\ [][Next]_vars

SpecScenario == InitScenario /\ [][Next]_vars

SpecCapacity == InitCapacity /\ [][Next]_vars

NextScatter == AllocAny \/ Expand \/ AccumulateAny \/ CompressAny

SpecScatter == InitWith(ScatterConfigs) /\ [][NextScatter]_vars

NextPack == PackAny \/ UnpackAny

SpecPack == InitWith(PackConfigs) /\ [][NextPack]_vars

NextSlice == AllocAny \/ InsertAny \/ SliceAny \/ DeallocAny

SpecSlice == InitWith(SliceConfigs) /\ [][NextSlice]_vars

\* ------------------------------------------------------------------------
\* What a state holds: the occupied parts of the buffers of tensor t.

posArray(h, d, l) == Prefix(h, getPosMemRef(d, l), getPosMemSize(d, l))

\* The number of coordinates stored at level l.
crdCount(stt, d, l) == getCrdMemSize(stt, d, l) \div crdStride(stt, l)

\* The coordinates of level l, read through the stride of its buffer.
crdArray(stt, h, d, l) ==
  [i \in 1..crdCount(stt, d, l) |->
     h[getCrdMemRef(stt, d, l)].data[(i - 1) * crdStride(stt, l)
                                      + (l - crdFidx(stt, l)) + 1]]

valArray(h, d) == Prefix(h, getValMemRef(d), getValMemSize(d))

NonDecreasing(q) == \A i \in 1..(Len(q) - 1) : q[i] <= q[i + 1]

\* The parent slots of level l: the entries stored at the nearest level
\* above that is not dense (one when there is none), times the sizes of
\* the dense levels in between.
RECURSIVE slotsLoop(_, _, _, _)
slotsLoop(stt, d, k, prod) ==
  IF k < 0 THEN prod
  ELSE IF isDenseLvl(stt, k)
       THEN slotsLoop(stt, d, k - 1, prod * getLvlSize(d, k))
       ELSE crdCount(stt, d, k) * prod

ParentSlots(stt, d, l) == slotsLoop(stt, d, l - 1, 1)

Levels(stt) == 0..(getLvlRank(stt) - 1)

CompressedLevels(stt) == {l \in Levels(stt) : isCompressedLvl(stt, l)}

\* Lexicographic order of level coordinates.
LexLE(a, b) ==
  \/ a = b
  \/ \E i \in 1..Len(a) : a[i] < b[i] /\ \A j \in 1..(i - 1) : a[j] = b[j]

\* The inserts of the log respect the append order.
AppendOrder(log) ==
  LET ins == Inserts(log)
  IN \A i \in 1..(Len(ins) - 1) : LexLE(ins[i].c, ins[i + 1].c)

\* The last two operations were inserts whose coordinates agree on the
\* levels 0..l.
LastTwoAgree(log, l) ==
  LET n == Len(log)
  IN /\ n >= 2
     /\ log[n].op = "insert"
     /\ log[n - 1].op = "insert"
     /\ \A k \in 1..(l + 1) : log[n].c[k] = log[n - 1].c[k]

LastCoords(log) == log[Len(log)].c

\* The position of the parent of level l along the path of coordinates c.
RECURSIVE pathLoop(_, _, _, _, _, _, _)
pathLoop(h, d, stt, c, k, l, pp) ==
  IF k >= l THEN pp
  ELSE IF isDenseLvl(stt, k)
       THEN pathLoop(h, d, stt, c, k + 1, l,
                     sizeFromTensorAtLvl(stt, d, k) * pp + c[k + 1])
       ELSE IF isCompressedLvl(stt, k)
            THEN pathLoop(h, d, stt, c, k + 1, l,
                          genLoad(ST(h, d, FALSE), getPosMemRef(d, k), pp + 1)
                            - 1)
            ELSE pathLoop(h, d, stt, c, k + 1, l, pp)

PathPos(h, d, stt, c, l) == pathLoop(h, d, stt, c, 0, l, 0)

\* ------------------------------------------------------------------------
\* C1. The scenario of the 3x3 matrix.

ScenarioLog ==
  << [op |-> "alloc", dyn |-> <<>>, hint |-> NoHint],
     [op |-> "insert", c |-> <<0, 0>>, v |-> 1],
     [op |-> "insert", c |-> <<0, 2>>, v |-> 2],
     [op |-> "insert", c |-> <<2, 1>>, v |-> 3],
     [op |-> "endInsert"] >>

\* C1: for [Dense, Compressed(ordered, unique)] with dims (3,3), allocating,
\* inserting (0,0)=1, (0,2)=2, (2,1)=3 and finalizing leaves the level-1
\* positions [0,2,2,3], the level-1 coordinates [0,2,1] and the values
\* [1,2,3] as occupied prefixes.
C1_Scenario ==
  hist.log = ScenarioLog =>
    /\ posArray(heap, tens.t.d, 1) = <<0, 2, 2, 3>>
    /\ crdArray(cfg.stt, heap, tens.t.d, 1) = <<0, 2, 1>>
    /\ valArray(heap, tens.t.d) = <<1, 2, 3>>

C1_Witness == hist.log = ScenarioLog

\* ------------------------------------------------------------------------
\* C2. The position arrays after a finalization.

PositionsMonotone ==
  \A l \in CompressedLevels(cfg.stt) :
    /\ NonDecreasing(posArray(heap, tens.t.d, l))
    /\ getPosMemSize(tens.t.d, l) = ParentSlots(cfg.stt, tens.t.d, l) + 1

C3_Idempotent ==
  LET last == getLvlRank(cfg.stt) - 1
  IN (/\ Live(tens.t)
      /\ isCompressedLvl(cfg.stt, last)
      /\ isUniqueLvl(cfg.stt, last)
      /\ LastTwoAgree(hist.log, last)) =>
       /\ getCrdMemSize(cfg.stt, tens.t.d, last)
            = getCrdMemSize(cfg.stt, hist.pre.d, last)
       /\ getValMemSize(tens.t.d) = getValMemSize(hist.pre.d)

\* ------------------------------------------------------------------------
\* C4. Two inserts in sequence of the same coordinate under the same
\* parent of a non-unique compressed level l.

\* The pair: the coordinates agree down to level l, and no level above l
\* opens a new parent for the second insert.
SameParentPair(l) ==
  /\ Live(tens.t)
  /\ isCompressedLvl(cfg.stt, l)
  /\ ~isUniqueLvl(cfg.stt, l)
  /\ LastTwoAgree(hist.log, l)
  /\ \A k \in 0..(l - 1) :
       isDenseLvl(cfg.stt, k) \/ (isCompressedLvl(cfg.stt, k)
                                  /\ isUniqueLvl(cfg.stt, k))

\* The upper bound of the parent's range in a snapshot, read as stored.
UpperBound(snap, l) ==
  genLoad(ST(snap.heap, snap.d, FALSE), getPosMemRef(snap.d, l),
          PathPos(heap, tens.t.d, cfg.stt, LastCoords(hist.log), l) + 1)

\* C4 (as stated): the coordinate count of the level grows by 2, the
\* parent's position upper bound grows by 2, and neither insert takes the
\* equality fast path.
C4_Original ==
  \A l \in Levels(cfg.stt) :
    SameParentPair(l) =>
      /\ crdCount(cfg.stt, tens.t.d, l) = crdCount(cfg.stt, hist.pre2.d, l) + 2
      /\ crdCount(cfg.stt, hist.pre.d, l) = crdCount(cfg.stt, hist.pre2.d, l) + 1
      /\ UpperBound(Snapshot, l) = UpperBound(hist.pre2, l) + 2

\* C4 (amended): the coordinate count of the level grows by 2, neither
\* insert takes the equality fast path, and the parent's position upper
\* bound ends at the coordinate count before the two inserts plus 2.
C4_NonUniqueAppend ==
  \A l \in Levels(cfg.stt) :
    SameParentPair(l) =>
      /\ crdCount(cfg.stt, tens.t.d, l) = crdCount(cfg.stt, hist.pre2.d, l) + 2
      /\ crdCount(cfg.stt, hist.pre.d, l) = crdCount(cfg.stt, hist.pre2.d, l) + 1
      /\ UpperBound(Snapshot, l) = crdCount(cfg.stt, hist.pre2.d, l) + 2

\* The second insert of the pair repeats the last coordinate stored at the
\* level: the case in which a unique level takes the fast path.
C4_Witness ==
  \E l \in Levels(cfg.stt) :
    /\ SameParentPair(l)
    /\ l > 0
    /\ crdCount(cfg.stt, hist.pre2.d, l) > 0

\* ------------------------------------------------------------------------
\* C5: for an instance allocated without a size hint, every buffer read or
\* write of the allocation, of every insert and of finalize uses an index
\* below the capacity of a live buffer.
C5_CapacitySafe ==
  (hist.log # <<>> /\ hist.log[1].op = "alloc" /\ hist.log[1].hint = NoHint) =>
    ~hist.oob

\* A finalized tensor whose positions buffer outgrew the default capacity
\* and took a direct store beyond it.
C5_Witness ==
  /\ Live(tens.t)
  /\ LastOp(hist.log) = "endInsert"
  /\ ~hist.oob
  /\ \E l \in CompressedLevels(cfg.stt) :
       /\ capacity(heap, getPosMemRef(tens.t.d, l)) > kDefaultCapacity
       /\ heap[getPosMemRef(tens.t.d, l)].data[kDefaultCapacity + 2] > 0

\* ------------------------------------------------------------------------
\* C6. One row by expand, accumulate and compress against the same row by
\* inserts in ascending order.

\* The buffers and the specifier of a descriptor, by content.
TensorImage(h, d) ==
  [spec |-> d.spec,
   pos |-> [i \in DOMAIN d.pos |->
              IF d.pos[i] = NoBuf THEN <<>> ELSE h[d.pos[i]].data],
   crd |-> [i \in DOMAIN d.crd |->
              IF d.crd[i] = NoBuf THEN <<>> ELSE h[d.crd[i]].data],
   val |-> h[d.val].data]

\* The accumulations of the row that the last operation compressed.
RECURSIVE rowFrom(_, _)
rowFrom(log, i) ==
  IF i = 0 \/ log[i].op # "acc" THEN <<>>
  ELSE Append(rowFrom(log, i - 1), log[i])

RowPairs(log) == rowFrom(log, Len(log) - 1)

NoDuplicates(pairs) ==
  \A i, j \in 1..Len(pairs) : pairs[i].c = pairs[j].c => i = j

\* The pairs in ascending order of their coordinates.
SortPairs(pairs) ==
  LET order == SortAsc([i \in 1..Len(pairs) |-> pairs[i].c])
  IN [i \in 1..Len(pairs) |->
        pairs[CHOOSE j \in 1..Len(pairs) : pairs[j].c = order[i]]]

RECURSIVE insertAll(_, _, _, _)
insertAll(s, stt, lvlCoords, pairs) ==
  IF pairs = <<>> THEN s
  ELSE insertAll(genImplementation(s, stt, Append(lvlCoords, Head(pairs).c),
                                   Head(pairs).v),
                 stt, lvlCoords, Tail(pairs))

\* C6: for a row of pairs with no duplicate coordinates and an ordered
\* innermost level, expand, accumulation in any arrival order and compress
\* leave the position, coordinate and value buffers and the specifier as
\* inserting the pairs one at a time in ascending coordinate order does.
C6_ScatterGather ==
  (/\ LastOp(hist.log) = "compress"
   /\ isOrderedLvl(cfg.stt, getLvlRank(cfg.stt) - 1)
   /\ NoDuplicates(RowPairs(hist.log))) =>
    LET ref == insertAll(ST(hist.pre.heap, hist.pre.d, FALSE), cfg.stt,
                         hist.log[Len(hist.log)].c,
                         SortPairs(RowPairs(hist.log)))
    IN TensorImage(heap, tens.t.d) = TensorImage(ref.heap, ref.d)

\* A compressed row of at least two pairs that arrived in descending order.
C6_Witness ==
  /\ LastOp(hist.log) = "compress"
  /\ isOrderedLvl(cfg.stt, getLvlRank(cfg.stt) - 1)
  /\ NoDuplicates(RowPairs(hist.log))
  /\ Len(RowPairs(hist.log)) >= 2
  /\ RowPairs(hist.log)[1].c > RowPairs(hist.log)[2].c
  /\ getValMemSize(tens.t.d) >= 2

\* ------------------------------------------------------------------------
\* C7: creating a slice view and setting its offset, size and stride leaves
\* the specifier of the source and the contents of all buffers unchanged,
\* and the view refers to the very buffers of the source.
C7_SliceFrame ==
  LastOp(hist.log) = "slice" =>
    /\ tens.t.d = hist.pre.d
    /\ heap = hist.pre.heap
    /\ tens.v.d.pos = tens.t.d.pos
    /\ tens.v.d.crd = tens.t.d.crd
    /\ tens.v.d.val = tens.t.d.val
    /\ \A dim \in 0..(getDimRank(cfg.stt) - 1) :
         <<tens.v.d.spec.dimOffset[dim + 1], tens.v.d.spec.lvlSz[dim + 1],
           tens.v.d.spec.dimStride[dim + 1]>> = hist.log[Len(hist.log)].s[dim + 1]

\* A slice of a tensor holding entries, whose specifier differs from the
\* specifier of its source in every slice field.
C7_Witness ==
  /\ LastOp(hist.log) = "slice"
  /\ Len(Inserts(hist.log)) >= 1
  /\ \A dim \in 0..(getDimRank(cfg.stt) - 1) :
       /\ tens.v.d.spec.dimOffset[dim + 1] # tens.t.d.spec.dimOffset[dim + 1]
       /\ tens.v.d.spec.lvlSz[dim + 1] # tens.t.d.spec.lvlSz[dim + 1]
       /\ tens.v.d.spec.dimStride[dim + 1] # tens.t.d.spec.dimStride[dim + 1]

\* ------------------------------------------------------------------------
\* C8. Pack followed by unpack with results of the shape of the input.

RoundTrip ==
  /\ LastOp(hist.log) = "unpack"
  /\ hist.log[Len(hist.log)].len = aux.in.nse

SameAsInput ==
  /\ aux.out.values = aux.in.values
  /\ aux.out.coordinates = aux.in.coordinates
  /\ aux.out.nse = aux.in.nse

\* Some batch of the input ends in a zero value.
EndsInZero ==
  /\ aux.in.nse > 0
  /\ \E b \in 1..(Len(aux.in.values) \div aux.in.nse) :
       aux.in.values[b * aux.in.nse] = 0

HiLoPairs == isCompressedWithHiDLT(getLvlType(cfg.stt, cfg.batched))

\* C8 (as stated): pack followed by unpack returns the input values, the
\* input coordinates and the input count, unbatched and batched, with
\* single-offset or hi/lo-pair positions.
C8_Original == RoundTrip => SameAsInput

\* C8 (amended): pack followed by unpack returns the input values; it
\* returns the input coordinates and the input count for the unbatched
\* case, for batched single-offset positions, and for hi/lo-pair positions
\* when no batch of the input ends in a zero value.
C8_RoundTrip ==
  RoundTrip =>
    /\ aux.out.values = aux.in.values
    /\ (~HiLoPairs \/ ~EndsInZero) => SameAsInput

\* A round trip with hi/lo-pair positions, two entries per batch, a zero
\* value inside a batch and none at the end of a batch.
C8_Witness ==
  /\ RoundTrip
  /\ HiLoPairs
  /\ aux.in.nse >= 2
  /\ ~EndsInZero
  /\ \E i \in DOMAIN aux.in.values : aux.in.values[i] = 0
  /\ SameAsInput

\* ------------------------------------------------------------------------
\* C9: no buffer is released twice, and a buffer of a live source is not
\* released through a view or a packed tensor that borrows it.
C9_NoDoubleFree ==
  /\ \A id \in DOMAIN heap : heap[id].frees <= 1
  /\ Live(tens.t) =>
       \A id \in getMemRefFields(tens.t.d) : heap[id].frees = 0

\* ------------------------------------------------------------------------
\* C10: an allocation given a number of dynamic sizes other than the number
\* of dynamic dimensions fails, and nothing is allocated nor written.
C10_AllocMismatch ==
  (hist.log # <<>> /\ Len(hist.log[1].dyn) # getNumDynamicDims(cfg.stt)) =>
    /\ tens.t.state = "failed"
    /\ heap = <<>>
    /\ Len(hist.log) = 1

C10_Witness ==
  /\ tens.t.state = "failed"
  /\ getNumDynamicDims(cfg.stt) > 0

\* ------------------------------------------------------------------------
\* SparseConvertConverter: sparse_tensor.convert.

\* The widths of the overhead types and of the element type of the tensors
\* the operations above build: index and a 64-bit element.
IndexWidth == 0

SrcElemWidth == 64

\* A width a conversion may narrow to.
NarrowWidth == 8

\* A sparse tensor encoding: level types, ordering, the bit widths of the
\* positions and coordinates (0: index), and whether it describes a slice.
Enc(lts, l2d, posWidth, crdWidth, slice) ==
  [lvlTypes |-> lts, lvlToDim |-> l2d, posWidth |-> posWidth,
   crdWidth |-> crdWidth, slice |-> slice]

withoutBitWidths(enc) ==
  [enc EXCEPT !.posWidth = IndexWidth, !.crdWidth = IndexWidth]

\* The encoding of the type of a tensor handle: the view has a slice type.
getSparseTensorEncoding(stt, hd) ==
  Enc(stt.lvlTypes, stt.lvlToDim, IndexWidth, IndexWidth, hd = "v")

\* genCast to an integer type of width w: truncation.
genCast(v, w) == IF w = IndexWidth THEN v ELSE v % (2 ^ w)

\* A variant that allocates the buffer and leaves it unwritten.
convertMemRef_NoCopy(h, srcMem, srcWidth, dstWidth) ==
  Append(h, NewBuf([i \in 1..capacity(h, srcMem) |-> Junk]))

\* memref.alloc of the size of srcMem, then the element-wise cast when the
\* types differ or memref.copy when they agree.
convertMemRef(h, srcMem, srcWidth, dstWidth) ==
  Append(h, NewBuf([i \in 1..capacity(h, srcMem) |->
                      IF srcWidth # dstWidth
                      THEN genCast(h[srcMem].data[i], dstWidth)
                      ELSE h[srcMem].data[i]]))

\* foreachFieldAndTypeInSparseTensor visits the field (kind, l).
hasField(stt, kind, l) ==
  CASE kind = "pos" -> hasPosField(stt, l)
    [] kind = "crd" -> hasCrdField(stt, l)
    [] OTHER -> TRUE

\* The field (kind, l) of the result, when the type has it.
convertField(s, stt, srcDesc, kind, l, srcWidth, dstWidth) ==
  IF ~hasField(stt, kind, l) THEN s
  ELSE fieldAllocated(s, stt, kind, l,
                      convertMemRef(s.heap,
                                    getMemRefField(stt, srcDesc, kind, l),
                                    srcWidth, dstWidth))

RECURSIVE convertFieldsLoop(_, _, _, _, _, _, _)
convertFieldsLoop(s, stt, srcDesc, l, encSrc, encDst, retElemTp) ==
  IF l >= getLvlRank(stt)
  THEN convertField(s, stt, srcDesc, "val", 0, SrcElemWidth, retElemTp)
  ELSE convertFieldsLoop(
         convertField(
           convertField(s, stt, srcDesc, "pos", l, encSrc.posWidth,
                        encDst.posWidth),
           stt, srcDesc, "crd", l, encSrc.crdWidth, encDst.crdWidth),
         stt, srcDesc, l + 1, encSrc, encDst, retElemTp)

\* The fields of the result: the specifier of the source as it is, and a
\* new buffer for every memref field.
convertFields(h, stt, srcDesc, encSrc, encDst, retElemTp) ==
  convertFieldsLoop(ST(h, [EmptyDesc(stt) EXCEPT !.spec = srcDesc.spec], FALSE),
                    stt, srcDesc, 0, encSrc, encDst, retElemTp)

\* A variant that converts whatever the encodings are.
convertMatches_Always(encSrc, encDst) == TRUE

\* The rule applies: the encodings agree up to the bit widths and the
\* source is no slice.
convertMatches(encSrc, encDst) ==
  ~(withoutBitWidths(encDst) # withoutBitWidths(encSrc) \/ encSrc.slice)

\* The result of a conversion that applies: the source itself in the
\* trivial case, new fields otherwise.
convertOp(h, stt, srcDesc, encSrc, encDst, retElemTp) ==
  IF retElemTp = SrcElemWidth /\ encDst = encSrc
  THEN ST(h, srcDesc, FALSE)
  ELSE convertFields(h, stt, srcDesc, encSrc, encDst, retElemTp)

ConvertDone(s, e) ==
  /\ heap' = s.heap
  /\ tens' = [tens EXCEPT !.c = [state |-> "live", d |-> s.d]]
  /\ hist' = [hist EXCEPT !.log = Append(@, e), !.oob = @ \/ s.oob]

Convert(hd, encDst, retElemTp) ==
  /\ Live(tens[hd])
  /\ tens.c.state = "none"
  /\ IF ~convertMatches(getSparseTensorEncoding(cfg.stt, hd), encDst)
     THEN /\ tens' = [tens EXCEPT !.c = [state |-> "failed", d |-> <<>>]]
          /\ UNCHANGED heap
          /\ hist' = [hist EXCEPT !.log =
                        Append(@, [op |-> "convertFailed", h |-> hd,
                                   enc |-> encDst, elem |-> retElemTp])]
     ELSE ConvertDone(convertOp(heap, cfg.stt, tens[hd].d,
                                getSparseTensorEncoding(cfg.stt, hd), encDst,
                                retElemTp),
                      [op |-> "convert", h |-> hd, enc |-> encDst,
                       elem |-> retElemTp])
  /\ UNCHANGED <<cfg, aux>>

\* The level types of another structure of the same rank.
otherLvlTypes(stt) ==
  [l \in 1..getLvlRank(stt) |->
     IF stt.lvlTypes[l] = DenseLT THEN CompressedLT ELSE DenseLT]

\* The reverse ordering of the dimensions.
otherOrdering(stt) ==
  [l \in 1..getLvlRank(stt) |-> stt.lvlToDim[getLvlRank(stt) + 1 - l]]

\* The result types a conversion may be given: the structure of the source
\* with any widths, and other structures. The verifier admits no slice.
DstEncodings(stt) ==
  {Enc(stt.lvlTypes, stt.lvlToDim, pw, cw, FALSE) :
     pw \in {IndexWidth, NarrowWidth}, cw \in {IndexWidth, NarrowWidth}}
  \cup {Enc(otherLvlTypes(stt), stt.lvlToDim, IndexWidth, IndexWidth, FALSE),
        Enc(stt.lvlTypes, otherOrdering(stt), IndexWidth, NarrowWidth, FALSE)}

ConvertAny ==
  \E hd \in {"t", "v"} :
    \E encDst \in DstEncodings(cfg.stt) :
      \E retElemTp \in {SrcElemWidth, NarrowWidth} :
        Convert(hd, encDst, retElemTp)

NextConvert == AllocAny \/ InsertAny \/ SliceAny \/ ConvertAny

SpecConvert == InitWith(SliceConfigs) /\ [][NextConvert]_vars

\* The last step was a conversion, and what it was given.
Converted == hist'.log # hist.log /\ LastOp(hist'.log) \in {"convert", "convertFailed"}

SameStructure(e) ==
  /\ e.enc.lvlTypes = cfg.stt.lvlTypes
  /\ e.enc.lvlToDim = cfg.stt.lvlToDim
  /\ e.h # "v"

\* C11: a conversion fails, allocating nothing and leaving the heap and the
\* source as they are, whenever the encodings differ in more than the bit
\* widths or the source is a slice view, and succeeds in every other case.
C11_ConvertRefuses ==
  [][Converted =>
       LET e == hist'.log[Len(hist'.log)]
       IN /\ (tens'.c.state = "failed") <=> ~SameStructure(e)
          /\ (tens'.c.state = "live") <=> SameStructure(e)
          /\ ~SameStructure(e) =>
               /\ heap' = heap
               /\ tens'.t = tens.t
               /\ tens'.v = tens.v]_vars

C11_Witness ==
  /\ tens.c.state = "failed"
  /\ Live(tens.v)
  /\ LastOp(hist.log) = "convertFailed"
  /\ hist.log[Len(hist.log)].h = "v"
  /\ hist.log[Len(hist.log)].enc.posWidth = NarrowWidth

\* ------------------------------------------------------------------------
\* The last operation was an insert that broke the append order which the
\* inserts before it respected.
LastInsertOutOfOrder ==
  /\ LastOp(hist.log) = "insert"
  /\ AppendOrder(SubSeq(hist.log, 1, Len(hist.log) - 1))
  /\ ~AppendOrder(hist.log)

\* C12: an insert that violates the append order leaves the buffers and the
\* specifier as they were before it (it is refused, nothing is mutated).
C12_OutOfOrderRefused ==
  LastInsertOutOfOrder =>
    /\ heap = hist.pre.heap
    /\ tens.t.d = hist.pre.d

\* ------------------------------------------------------------------------
\* The occupied length the specifier records for every buffer of d is at
\* most the capacity of the buffer.
OccupancyWithinCapacity(h, d) ==
  /\ \A i \in DOMAIN d.pos :
       d.pos[i] # NoBuf => d.spec.posSz[i] <= capacity(h, d.pos[i])
  /\ \A i \in DOMAIN d.crd :
       d.crd[i] # NoBuf => d.spec.crdSz[i] <= capacity(h, d.crd[i])
  /\ d.val # NoBuf => d.spec.valSz <= capacity(h, d.val)

\* C13: in every reachable state the occupied length of each position,
\* coordinate and value buffer of every live tensor is at most the
\* capacity of the buffer.
C13_OccupancyBelowCapacity ==
  \A hd \in DOMAIN tens :
    Live(tens[hd]) => OccupancyWithinCapacity(heap, tens[hd].d)

\* ------------------------------------------------------------------------
\* The innermost level stores coordinates: it is compressed or singleton.
InnermostSparse(stt) ==
  \/ isCompressedLvl(stt, getLvlRank(stt) - 1)
  \/ isSingletonLvl(stt, getLvlRank(stt) - 1)

\* C14: for a scheme whose innermost level is compressed or singleton, the
\* occupied length of the value array equals the number of coordinates
\* stored at the innermost level, after any sequence of inserts.
C14_OneValuePerLeaf ==
  (Live(tens.t) /\ InnermostSparse(cfg.stt)) =>
    getValMemSize(tens.t.d)
      = crdCount(cfg.stt, tens.t.d, getLvlRank(cfg.stt) - 1)

\* ------------------------------------------------------------------------
\* The occupied length of the positions of every compressed level is one
\* more than the number of parent slots of the level.
LinearPlusOne(stt, d) ==
  \A l \in CompressedLevels(stt) :
    getPosMemSize(d, l) = ParentSlots(stt, d, l) + 1

AllZero(q) == \A i \in DOMAIN q : q[i] = 0

\* C15: at all times, finalized or not, the occupied length of the position
\* array of each compressed level is 1 + the number of parent slots that
\* exist for the level; right after the allocation its entries are zeros.
C15_LinearPlusOne ==
  Live(tens.t) =>
    /\ LinearPlusOne(cfg.stt, tens.t.d)
    /\ LastOp(hist.log) = "alloc" =>
         \A l \in CompressedLevels(cfg.stt) :
           AllZero(posArray(heap, tens.t.d, l))

\* Two inserts, no finalize yet, and a compressed level below level 0 with
\* at least two parent slots.
C15_Witness ==
  /\ Live(tens.t)
  /\ Len(Inserts(hist.log)) >= 2
  /\ Loads(hist.log) = <<>>
  /\ \E l \in CompressedLevels(cfg.stt) :
       /\ l > 0
       /\ ~isDenseLvl(cfg.stt, l - 1)
       /\ ParentSlots(cfg.stt, tens.t.d, l) >= 2
  /\ C15_LinearPlusOne

\* ------------------------------------------------------------------------
\* Two independent tensors t and u, each with its own sequence of
\* allocation, inserts and finalize; the steps of the two interleave.

MaxTwoInserts == 2

TwoConfigs ==
  { CFG(<<DenseLT, CompressedLT>>, <<2, 2>>, {1}, MaxTwoInserts),
    CFG(<<CompressedNuLT, SingletonLT>>, <<2, 2>>, {1}, MaxTwoInserts) }

Instances == {"t", "u"}

\* One operation of a sequence applied to the fields of a tensor.
applyOp(s, stt, e) ==
  CASE e.op = "alloc" -> createAllocFields(s.heap, stt, <<>>, FALSE, NoHint)
    [] e.op = "insert" -> genImplementation(s, stt, e.c, e.v)
    [] OTHER -> genEndInsert(s, stt)

StepDone(hd, s, e) ==
  /\ heap' = s.heap
  /\ tens' = [tens EXCEPT ![hd] = [state |-> "live", d |-> s.d]]
  /\ aux' = [aux EXCEPT !.ops[hd] = Append(@, e)]
  /\ hist' = [hist EXCEPT !.oob = @ \/ s.oob]
  /\ UNCHANGED cfg

AllocAt(hd) ==
  /\ tens[hd].state = "none"
  /\ StepDone(hd, applyOp(ST(heap, <<>>, FALSE), cfg.stt, [op |-> "alloc"]),
              [op |-> "alloc"])

InsertAt(hd, lvlCoords, value) ==
  /\ Live(tens[hd])
  /\ Len(Inserts(aux.ops.t)) + Len(Inserts(aux.ops.u)) < MaxTwoInserts
  /\ StepDone(hd,
              applyOp(ST(heap, tens[hd].d, FALSE), cfg.stt,
                      [op |-> "insert", c |-> lvlCoords, v |-> value]),
              [op |-> "insert", c |-> lvlCoords, v |-> value])

EndInsertAt(hd) ==
  /\ Live(tens[hd])
  /\ Loads(aux.ops[hd]) = <<>>
  /\ StepDone(hd,
              applyOp(ST(heap, tens[hd].d, FALSE), cfg.stt,
                      [op |-> "endInsert"]),
              [op |-> "endInsert"])

AllocAtAny == \E hd \in Instances : AllocAt(hd)

\* The tensor t is given the value 1, the tensor u the value 2.
InsertAtAny ==
  \E hd \in Instances :
    /\ Live(tens[hd])
    /\ \E c \in LvlCoords(cfg.stt, tens[hd].d) :
         InsertAt(hd, c, IF hd = "t" THEN 1 ELSE 2)

EndInsertAtAny == \E hd \in Instances : EndInsertAt(hd)

NextTwo == AllocAtAny \/ InsertAtAny \/ EndInsertAtAny

SpecTwo == InitWith(TwoConfigs) /\ [][NextTwo]_vars

\* The sequence ops run alone from an empty heap. The test on s.oob is
\* always false; it evaluates each step before the next one is applied.
RECURSIVE replay(_, _, _, _)
replay(s, stt, ops, i) ==
  IF i > Len(ops) \/ s.oob \notin BOOLEAN THEN s
  ELSE replay(applyOp(s, stt, ops[i]), stt, ops, i + 1)

RunAlone(stt, ops) == replay(ST(<<>>, <<>>, FALSE), stt, ops, 1)

SameAsAlone(hd) ==
  LET alone == RunAlone(cfg.stt, aux.ops[hd])
  IN  TensorImage(heap, tens[hd].d) = TensorImage(alone.heap, alone.d)

\* The buffers of the two tensors are distinct.
DistinctBuffers ==
  (Live(tens.t) /\ Live(tens.u)) =>
    getMemRefFields(tens.t.d) \cap getMemRefFields(tens.u.d) = {}

\* C16: for any interleaving of the operations of two tensors with distinct
\* buffers, the buffers and the specifier of each tensor are those that its
\* own sequence of operations produces when run alone.
C16_Independent ==
  /\ DistinctBuffers
  /\ \A hd \in Instances : Live(tens[hd]) => SameAsAlone(hd)

\* Both tensors hold entries and one of them is finalized, the other not.
C16_Witness ==
  /\ Live(tens.t)
  /\ Live(tens.u)
  /\ Len(Inserts(aux.ops.t)) >= 1
  /\ Len(Inserts(aux.ops.u)) >= 1
  /\ Loads(aux.ops.t) # <<>>
  /\ Loads(aux.ops.u) = <<>>
  /\ C16_Independent


\* ------------------------------------------------------------------------
\* The loop nest over the rows of a tensor: expand on entry, per row the
\* accumulations and one compress, and on exit the release of the scratch
\* buffers.

\* Rows compressed and values accumulated in one run.
MaxRows == 2

MaxRowAccs == 2

RowConfigs ==
  { [CFG(lts, <<2, 2>>, {}, MaxRowAccs) EXCEPT !.vals = [k \in 1..MaxRowAccs |-> {k}]] :
      lts \in {<<DenseLT, CompressedLT>>, <<DenseLT, CompressedNoLT>>} }

ScratchOf(exp) == {exp.values, exp.filled, exp.added}

\* A variant that releases the buffers where the compress is.
deallocScratch_InLoop(h, exp, onExit) == deallocOps(h, ScratchOf(exp))

\* memref.dealloc of values, filled and added, inserted after the top-level
\* parent of the compress: nothing is released inside the loop nest.
deallocScratch(h, exp, onExit) ==
  IF onExit THEN deallocOps(h, ScratchOf(exp)) ELSE h

\* One row of the loop nest: sparse_tensor.compress at lvlCoords; the
\* caller starts the next row with count 0.
CompressRow(lvlCoords) ==
  /\ heap' = deallocScratch(compress(ST(heap, tens.t.d, FALSE), cfg.stt,
                                     aux.exp, lvlCoords).heap,
                            aux.exp, FALSE)
  /\ tens' = [tens EXCEPT !.t.d = compress(ST(heap, tens.t.d, FALSE), cfg.stt,
                                           aux.exp, lvlCoords).d]
  /\ Record([op |-> "compress", c |-> lvlCoords],
            compress(ST(heap, tens.t.d, FALSE), cfg.stt, aux.exp,
                     lvlCoords).oob)
  /\ aux' = [aux EXCEPT !.exp.count = 0]
  /\ UNCHANGED cfg

CompressRowAny ==
  /\ Live(tens.t)
  /\ aux.exp # <<>>
  /\ Len(Compresses(hist.log)) < MaxRows
  /\ \E c \in LvlCoords(cfg.stt, tens.t.d) :
       CompressRow(SubSeq(c, 1, getLvlRank(cfg.stt) - 1))

Exits(log) == SelectSeq(log, LAMBDA e : e.op = "release")

\* The exit of the loop nest: the deallocations after the parent. One loop
\* nest runs to its exit.
ExitLoopNest ==
  /\ Live(tens.t)
  /\ aux.exp # <<>>
  /\ Exits(hist.log) = <<>>
  /\ heap' = deallocScratch(heap, aux.exp, TRUE)
  /\ aux' = [aux EXCEPT !.exp = <<>>]
  /\ Record([op |-> "release", exp |-> aux.exp], FALSE)
  /\ UNCHANGED <<cfg, tens>>

NextRows == AllocAny \/ Expand \/ AccumulateAny \/ CompressRowAny \/ ExitLoopNest

SpecRows == InitWith(RowConfigs) /\ [][NextRows]_vars

\* ------------------------------------------------------------------------
\* C17: if before a compress values and filled are set only at the
\* coordinates accumulated for the row, then after it values is all zero
\* and filled all false, one value was appended per such coordinate, and
\* for an ordered innermost level the values were appended in ascending
\* order of their coordinates.

RECURSIVE ascOf(_)
ascOf(S) ==
  IF S = {} THEN <<>>
  ELSE LET m == CHOOSE x \in S : \A y \in S : x <= y
       IN <<m>> \o ascOf(S \ {m})

\* The coordinates accumulated for the row the last compress took.
Touched == {RowPairs(hist.log)[i].c : i \in DOMAIN RowPairs(hist.log)}

OnlyTouchedSet ==
  \A c \in 0..(capacity(hist.pre.heap, aux.exp.values) - 1) :
    (\/ hist.pre.heap[aux.exp.values].data[c + 1] # 0
     \/ hist.pre.heap[aux.exp.filled].data[c + 1] # 0) => c \in Touched

ScratchClear ==
  /\ \A i \in DOMAIN heap[aux.exp.values].data :
       heap[aux.exp.values].data[i] = 0
  /\ \A i \in DOMAIN heap[aux.exp.filled].data :
       heap[aux.exp.filled].data[i] = 0

AppendedValues ==
  [i \in 1..(getValMemSize(tens.t.d) - getValMemSize(hist.pre.d)) |->
     heap[getValMemRef(tens.t.d)].data[getValMemSize(hist.pre.d) + i]]

C17_ScratchRestored ==
  (LastOp(hist.log) = "compress" /\ OnlyTouchedSet) =>
    /\ ScratchClear
    /\ Len(AppendedValues) = Cardinality(Touched)
    /\ isOrderedLvl(cfg.stt, getLvlRank(cfg.stt) - 1) =>
         AppendedValues =
           [i \in 1..Cardinality(Touched) |->
              hist.pre.heap[aux.exp.values].data[ascOf(Touched)[i] + 1]]

\* The second row of a loop nest compressed, with two coordinates that
\* arrived in descending order, into an ordered level.
C17_Witness ==
  /\ LastOp(hist.log) = "compress"
  /\ OnlyTouchedSet
  /\ Len(Compresses(hist.log)) = 2
  /\ isOrderedLvl(cfg.stt, getLvlRank(cfg.stt) - 1)
  /\ Len(RowPairs(hist.log)) = 2
  /\ RowPairs(hist.log)[1].c > RowPairs(hist.log)[2].c
  /\ ScratchClear

\* ------------------------------------------------------------------------
\* C18: the scratch buffers of an expand stay live while its loop nest
\* runs, so every compress works on live buffers, and after the exit of
\* the loop nest each of them has been released exactly once.
C18_ReleasedOnceOnExit ==
  /\ aux.exp # <<>> => \A id \in ScratchOf(aux.exp) : heap[id].frees = 0
  /\ LastOp(hist.log) = "compress" =>
       \A id \in ScratchOf(aux.exp) : hist.pre.heap[id].frees = 0
  /\ \A i \in DOMAIN hist.log :
       hist.log[i].op = "release" =>
         \A id \in ScratchOf(hist.log[i].exp) : heap[id].frees = 1

\* A loop nest of two compressed rows with accumulations has exited.
C18_Witness ==
  /\ LastOp(hist.log) = "release"
  /\ Len(Compresses(hist.log)) = 2
  /\ Len(Accs(hist.log)) >= 2
  /\ \A id \in ScratchOf(hist.log[Len(hist.log)].exp) : heap[id].frees = 1


\* ------------------------------------------------------------------------
\* SparseNewOpConverter: sparse_tensor.new, the load of a COO tensor from a
\* file through the external reader.

\* Entries of a file.
MaxFileNse == 2

\* An ordered COO, an unordered COO, a COO with a dynamic dimension, and a
\* scheme that is not a COO.
NewConfigs ==
  { CFG(<<CompressedNuLT, SingletonLT>>, <<2, 2>>, {1}, MaxFileNse),
    CFG(<<LT("compressed", FALSE, FALSE), LT("singleton", FALSE, TRUE)>>,
        <<2, 2>>, {1}, MaxFileNse),
    CFG(<<CompressedNuLT, SingletonLT>>, <<kDynamic, 2>>, {1}, MaxFileNse),
    CFG(<<DenseLT, CompressedLT>>, <<2, 2>>, {1}, MaxFileNse) }

\* The files a reader may open: the declared dimension sizes and up to
\* MaxFileNse coordinate tuples in any order; the k-th entry has value k.
Files(stt) ==
  { [dims |-> [d \in 1..getDimRank(stt) |-> 2], crds |-> crds] :
      crds \in UNION {[1..n -> [1..getDimRank(stt) -> 0..1]] :
                        n \in 0..MaxFileNse} }

\* The external reader.
createSparseTensorReader(file) == [file |-> file, dels |-> 0]

copySparseTensorReaderDimSizes(reader) == reader.file.dims

getSparseTensorReaderNSE(reader) == Len(reader.file.crds)

\* The read fills the coordinates, as an array of structures, and the
\* values.
getSparseTensorReaderRead(h, reader, xs, ys, lvlRank) ==
  [h EXCEPT
     ![xs].data = [k \in DOMAIN @ |->
        IF k <= Len(reader.file.crds) * lvlRank
        THEN reader.file.crds[((k - 1) \div lvlRank) + 1][((k - 1) % lvlRank) + 1]
        ELSE @[k]],
     ![ys].data = [k \in DOMAIN @ |->
        IF k <= Len(reader.file.crds) THEN k ELSE @[k]]]

\* The result of the read: the entries were found in ascending order.
readIsSorted(reader) ==
  \A i \in 1..(Len(reader.file.crds) - 1) :
    LexLE(reader.file.crds[i], reader.file.crds[i + 1])

delSparseTensorReader(reader) == [reader EXCEPT !.dels = @ + 1]

\* The entries of a COO buffer pair.
cooEntries(h, n, xs, ys, lvlRank) ==
  [k \in 1..n |->
     [c |-> [l \in 1..lvlRank |-> h[xs].data[(k - 1) * lvlRank + l]],
      v |-> h[ys].data[k]]]

RECURSIVE sortEntries(_)
sortEntries(q) ==
  IF q = <<>> THEN q
  ELSE LET m == CHOOSE i \in 1..Len(q) :
                  /\ \A j \in 1..Len(q) : LexLE(q[i].c, q[j].c)
                  /\ \A j \in 1..(i - 1) : q[j].c # q[i].c
       IN <<q[m]>> \o sortEntries([i \in 1..(Len(q) - 1) |->
                                     IF i < m THEN q[i] ELSE q[i + 1]])

storeEntries(h, q, xs, ys, lvlRank) ==
  [h EXCEPT
     ![xs].data = [k \in DOMAIN @ |->
        IF k <= Len(q) * lvlRank
        THEN q[((k - 1) \div lvlRank) + 1].c[((k - 1) % lvlRank) + 1]
        ELSE @[k]],
     ![ys].data = [k \in DOMAIN @ |-> IF k <= Len(q) THEN q[k].v ELSE @[k]]]

\* sparse_tensor.sort_coo of the first n entries.
SortCooOp(h, n, xs, ys, lvlRank) ==
  storeEntries(h, sortEntries(cooEntries(h, n, xs, ys, lvlRank)), xs, ys,
               lvlRank)

\* The rule applies to a type with an encoding that is a COO from level 0.
newMatches(stt) == getCOOStart(stt) = 0

hasDynamicDimShape(stt) == getNumDynamicDims(stt) > 0

\* The sizes of the dynamic dimensions, loaded from the copied sizes.
loadDynSizes(stt, dimSizes) ==
  [i \in 1..getNumDynamicDims(stt) |->
     dimSizes[CHOOSE d \in 1..getDimRank(stt) :
                /\ stt.dimShape[d] = kDynamic
                /\ Cardinality({e \in 1..d : stt.dimShape[e] = kDynamic}) = i]]

\* A variant that releases the reader before the data is read.
nextCall_ReleaseEarly(last, dynamic) ==
  CASE last = "none" -> "createSparseTensorReader"
    [] last = "createSparseTensorReader" ->
         IF dynamic THEN "copySparseTensorReaderDimSizes"
         ELSE "getSparseTensorReaderNSE"
    [] last = "copySparseTensorReaderDimSizes" -> "getSparseTensorReaderNSE"
    [] last = "getSparseTensorReaderNSE" -> "createAllocFields"
    [] last = "createAllocFields" -> "delSparseTensorReader"
    [] last = "delSparseTensorReader" -> "getSparseTensorReaderRead"
    [] last = "getSparseTensorReaderRead" -> "setSpecifier"
    [] OTHER -> "done"

\* The calls of the generated code in program order: the call that follows
\* the call last made.
nextCall(last, dynamic) ==
  CASE last = "none" -> "createSparseTensorReader"
    [] last = "createSparseTensorReader" ->
         IF dynamic THEN "copySparseTensorReaderDimSizes"
         ELSE "getSparseTensorReaderNSE"
    [] last = "copySparseTensorReaderDimSizes" -> "getSparseTensorReaderNSE"
    [] last = "getSparseTensorReaderNSE" -> "createAllocFields"
    [] last = "createAllocFields" -> "getSparseTensorReaderRead"
    [] last = "getSparseTensorReaderRead" -> "setSpecifier"
    [] last = "setSpecifier" -> "delSparseTensorReader"
    [] OTHER -> "done"

lastCall == IF aux.rd = <<>> THEN "none" ELSE aux.rd.pc

AtCall(name) ==
  /\ newMatches(cfg.stt)
  /\ nextCall(lastCall, hasDynamicDimShape(cfg.stt)) = name

\* The rule fails for a type that is not a COO from level 0.
NewRefused ==
  /\ tens.t.state = "none"
  /\ ~newMatches(cfg.stt)
  /\ tens' = [tens EXCEPT !.t = [state |-> "failed", d |-> <<>>]]
  /\ hist' = [hist EXCEPT !.log = Append(@, [op |-> "newFailed"])]
  /\ UNCHANGED <<cfg, heap, aux>>

NewOpen(file) ==
  /\ tens.t.state = "none"
  /\ AtCall("createSparseTensorReader")
  /\ aux' = [aux EXCEPT !.rd = [pc |-> "createSparseTensorReader",
                                reader |-> createSparseTensorReader(file),
                                dynSizes |-> <<>>, nse |-> NoHint,
                                isSorted |-> FALSE]]
  /\ Record([op |-> "createSparseTensorReader"], FALSE)
  /\ UNCHANGED <<cfg, heap, tens>>

NewOpenAny == \E file \in Files(cfg.stt) : NewOpen(file)

NewDimSizes ==
  /\ AtCall("copySparseTensorReaderDimSizes")
  /\ aux' = [aux EXCEPT
       !.rd.pc = "copySparseTensorReaderDimSizes",
       !.rd.dynSizes =
          loadDynSizes(cfg.stt, copySparseTensorReaderDimSizes(aux.rd.reader))]
  /\ Record([op |-> "copySparseTensorReaderDimSizes",
             dels |-> aux.rd.reader.dels], FALSE)
  /\ UNCHANGED <<cfg, heap, tens>>

NewNse ==
  /\ AtCall("getSparseTensorReaderNSE")
  /\ aux' = [aux EXCEPT !.rd.pc = "getSparseTensorReaderNSE",
                        !.rd.nse = getSparseTensorReaderNSE(aux.rd.reader)]
  /\ Record([op |-> "getSparseTensorReaderNSE", dels |-> aux.rd.reader.dels],
            FALSE)
  /\ UNCHANGED <<cfg, heap, tens>>

NewAllocDone(s) ==
  /\ heap' = s.heap
  /\ tens' = [tens EXCEPT !.t = [state |-> "loading", d |-> s.d]]
  /\ aux' = [aux EXCEPT !.rd.pc = "createAllocFields"]
  /\ Record([op |-> "createAllocFields", hint |-> aux.rd.nse], s.oob)
  /\ UNCHANGED cfg

NewAlloc ==
  /\ AtCall("createAllocFields")
  /\ NewAllocDone(createAllocFields(heap, cfg.stt, aux.rd.dynSizes, FALSE,
                                    aux.rd.nse))

NewRead ==
  /\ AtCall("getSparseTensorReaderRead")
  /\ heap' = getSparseTensorReaderRead(heap, aux.rd.reader,
                                       getAOSMemRef(cfg.stt, tens.t.d),
                                       getValMemRef(tens.t.d),
                                       getLvlRank(cfg.stt))
  /\ aux' = [aux EXCEPT !.rd.pc = "getSparseTensorReaderRead",
                        !.rd.isSorted = readIsSorted(aux.rd.reader)]
  /\ Record([op |-> "getSparseTensorReaderRead", dels |-> aux.rd.reader.dels],
            FALSE)
  /\ UNCHANGED <<cfg, tens>>

\* A variant that sorts whatever the read reported.
sortIfNeeded_Always(h, stt, d, nse, isSorted) ==
  SortCooOp(h, nse, getAOSMemRef(stt, d), getValMemRef(d), getLvlRank(stt))

\* The sort of the entries when the last level is ordered and the read
\* found them unsorted.
sortIfNeeded(h, stt, d, nse, isSorted) ==
  IF isOrderedLvl(stt, getLvlRank(stt) - 1) /\ ~isSorted
  THEN SortCooOp(h, nse, getAOSMemRef(stt, d), getValMemRef(d), getLvlRank(stt))
  ELSE h

\* PosMemRef0[1] = nse and the sizes of the coordinates and the values.
setNewSizes(s, stt, nse) ==
  [genStore(s, nse, getPosMemRef(s.d, 0), 1) EXCEPT
     !.d = setSpecifierField(stt,
             setSpecifierField(stt, s.d, "crd", 0, nse * getLvlRank(stt)),
             "val", 0, nse)]

NewSizesDone(s) ==
  /\ heap' = s.heap
  /\ tens' = [tens EXCEPT !.t.d = s.d]
  /\ aux' = [aux EXCEPT !.rd.pc = "setSpecifier"]
  /\ Record([op |-> "setSpecifier"], s.oob)
  /\ UNCHANGED cfg

NewSizes ==
  /\ AtCall("setSpecifier")
  /\ NewSizesDone(setNewSizes(
       ST(sortIfNeeded(heap, cfg.stt, tens.t.d, aux.rd.nse, aux.rd.isSorted),
          tens.t.d, FALSE),
       cfg.stt, aux.rd.nse))

\* The release of the reader; the fields then replace the operation.
NewRelease ==
  /\ AtCall("delSparseTensorReader")
  /\ aux' = [aux EXCEPT !.rd.pc = "delSparseTensorReader",
                        !.rd.reader = delSparseTensorReader(@)]
  /\ tens' = [tens EXCEPT !.t.state =
                IF nextCall("delSparseTensorReader",
                            hasDynamicDimShape(cfg.stt)) = "done"
                THEN "live" ELSE @]
  /\ Record([op |-> "delSparseTensorReader", dels |-> aux.rd.reader.dels],
            FALSE)
  /\ UNCHANGED <<cfg, heap>>

NextNew ==
  \/ NewRefused
  \/ NewOpenAny
  \/ NewDimSizes
  \/ NewNse
  \/ NewAlloc
  \/ NewRead
  \/ NewSizes
  \/ NewRelease

SpecNew == InitWith(NewConfigs) /\ [][NextNew]_vars

\* ------------------------------------------------------------------------
\* C19: in a load from a file the reader is opened first; the dimension
\* sizes, when a dimension is dynamic, and nse are queried before the data
\* is read; the fields are allocated with nse as size hint before the read;
\* the data is read in one call; the reader is released exactly once, after
\* the read, and no call is made on a released reader.

ReaderCalls ==
  {"createSparseTensorReader", "copySparseTensorReaderDimSizes",
   "getSparseTensorReaderNSE", "getSparseTensorReaderRead",
   "delSparseTensorReader"}

At(name) == {i \in DOMAIN hist.log : hist.log[i].op = name}

Before(a, b) == \A j \in At(b) : \E i \in At(a) : i < j

C19_ReaderOrder ==
  /\ \A name \in ReaderCalls : Cardinality(At(name)) <= 1
  /\ \A name \in ReaderCalls \ {"createSparseTensorReader"} :
       Before("createSparseTensorReader", name)
  /\ Before("getSparseTensorReaderNSE", "createAllocFields")
  /\ Before("getSparseTensorReaderNSE", "getSparseTensorReaderRead")
  /\ hasDynamicDimShape(cfg.stt) =>
       /\ Before("copySparseTensorReaderDimSizes", "getSparseTensorReaderRead")
       /\ Before("copySparseTensorReaderDimSizes", "createAllocFields")
  /\ ~hasDynamicDimShape(cfg.stt) => At("copySparseTensorReaderDimSizes") = {}
  /\ Before("createAllocFields", "getSparseTensorReaderRead")
  /\ \A i \in At("createAllocFields") :
       hist.log[i].hint = Len(aux.rd.reader.file.crds)
  /\ Before("getSparseTensorReaderRead", "delSparseTensorReader")
  /\ \A i \in DOMAIN hist.log :
       (hist.log[i].op \in ReaderCalls \ {"createSparseTensorReader"}) =>
         hist.log[i].dels = 0
  /\ \A i \in At("delSparseTensorReader") : \A j \in DOMAIN hist.log :
       (j > i) => hist.log[j].op \notin ReaderCalls
  /\ Live(tens.t) => /\ Cardinality(At("delSparseTensorReader")) = 1
                     /\ aux.rd.reader.dels = 1

\* A load of two unsorted entries into an ordered COO with a dynamic
\* dimension has completed.
C19_Witness ==
  /\ Live(tens.t)
  /\ hasDynamicDimShape(cfg.stt)
  /\ Len(aux.rd.reader.file.crds) = 2
  /\ ~aux.rd.isSorted
  /\ At("getSparseTensorReaderRead") # {}
  /\ aux.rd.reader.dels = 1
  /\ getValMemSize(tens.t.d) = 2


\* ------------------------------------------------------------------------
\* Schemes with a compressed-with-hi level under insertion. The level loops
\* of allocSchemeForRank and genImplementation reach such a level in their
\* last branch, under assert(isDenseDLT(dlt)); genEndInsert reaches
\* llvm_unreachable. A build with assertions stops there; a build without
\* them runs the dense branch, and what follows llvm_unreachable is
\* undefined.

MaxHiInserts == 2

HiLoSchemes ==
  { <<DenseLT, CompressedHiLT>>, <<CompressedLT, CompressedHiLT>>,
    <<CompressedHiLT, SingletonLT>>, <<DenseLT, CompressedLT>> }

\* asserts: the build has assertions enabled.
HiLoConfigs ==
  { [stt |-> STT(lts, <<2, 2>>, Ident(2)),
     vals |-> [k \in 1..MaxHiInserts |-> {1}],
     maxIns |-> MaxHiInserts,
     asserts |-> a] : lts \in HiLoSchemes, a \in BOOLEAN }

\* allocSchemeForRank from startLvl reaches its assertion at a level that is
\* not dense.
RECURSIVE allocAsserts(_, _)
allocAsserts(stt, l) ==
  IF l >= getLvlRank(stt) THEN FALSE
  ELSE IF isCompressedLvl(stt, l) \/ isSingletonLvl(stt, l) THEN FALSE
  ELSE IF isDenseLvl(stt, l) THEN allocAsserts(stt, l + 1)
  ELSE TRUE

\* The level loop of genImplementation visits every level, so it reaches its
\* assertion when some level is neither compressed, singleton nor dense.
insertAsserts(stt) ==
  \E l \in 0..(getLvlRank(stt) - 1) :
    ~(isCompressedLvl(stt, l) \/ isSingletonLvl(stt, l) \/ isDenseLvl(stt, l))

\* The operation stops the program.
Stopped(at) ==
  /\ tens' = [tens EXCEPT !.t.state = "stopped"]
  /\ hist' = [hist EXCEPT !.log = Append(@, [op |-> "stopped", at |-> at])]
  /\ UNCHANGED <<cfg, heap, aux>>

AllocHi ==
  /\ tens.t.state = "none"
  /\ IF cfg.asserts /\ allocAsserts(cfg.stt, 0)
     THEN Stopped("alloc")
     ELSE AllocAny

InsertHi ==
  /\ Live(tens.t)
  /\ IF cfg.asserts /\ insertAsserts(cfg.stt)
     THEN Stopped("insert")
     ELSE InsertAny

\* genEndInsert past llvm_unreachable: no branch of the level applies.
EndInsertThrough ==
  /\ ~cfg.asserts
  /\ Len(Loads(hist.log)) < MaxLoads
  /\ LastOp(hist.log) # "endInsert"
  /\ heap' = genEndInsert(ST(heap, tens.t.d, FALSE), cfg.stt).heap
  /\ tens' = [tens EXCEPT
       !.t.d = genEndInsert(ST(heap, tens.t.d, FALSE), cfg.stt).d]
  /\ Record([op |-> "endInsert"],
            genEndInsert(ST(heap, tens.t.d, FALSE), cfg.stt).oob)
  /\ UNCHANGED <<cfg, aux>>

EndInsertHi ==
  /\ Live(tens.t)
  /\ IF endInsertStops(cfg.stt)
     THEN Stopped("endInsert") \/ EndInsertThrough
     ELSE EndInsert

NextHiLo == AllocHi \/ InsertHi \/ EndInsertHi

SpecHiLo == InitWith(HiLoConfigs) /\ [][NextHiLo]_vars

\* ------------------------------------------------------------------------
\* C20: on a scheme with a compressed-with-hi level no insert and no
\* finalize completes: each of them stops instead of producing buffers.
C20_HiLoRefused ==
  endInsertStops(cfg.stt) =>
    /\ Inserts(hist.log) = <<>>
    /\ Loads(hist.log) = <<>>

\* The same for finalize alone.
HiLoFinalizeRefused == endInsertStops(cfg.stt) => Loads(hist.log) = <<>>

\* The same in builds with assertions.
HiLoRefusedWithAsserts ==
  (endInsertStops(cfg.stt) /\ cfg.asserts) =>
    /\ Inserts(hist.log) = <<>>
    /\ Loads(hist.log) = <<>>


\* ------------------------------------------------------------------------
\* Decoding: the (tuple, value) pairs a tensor stores, read level by level
\* through the position ranges, the coordinates and the values.

\* Schemes of dense, compressed(ordered, unique) and singleton levels, and
\* a COO scheme of rank 3; the k-th insert has value k.
DecodeConfigs ==
  { [CFG(lts.l, lts.s, {}, MaxInserts) EXCEPT
       !.vals = [k \in 1..MaxInserts |-> {k}]] :
      lts \in { [l |-> <<DenseLT, CompressedLT>>, s |-> <<2, 2>>],
                [l |-> <<CompressedLT, CompressedLT>>, s |-> <<2, 2>>],
                [l |-> <<CompressedLT>>, s |-> <<3>>],
                [l |-> <<CompressedLT, SingletonLT>>, s |-> <<2, 2>>],
                [l |-> <<CompressedLT, DenseLT>>, s |-> <<2, 2>>],
                [l |-> <<CompressedLT, DenseLT, CompressedLT>>,
                 s |-> <<2, 2, 1>>],
                [l |-> <<DenseLT, SingletonLT>>, s |-> <<2, 2>>],
                [l |-> <<DenseLT, DenseLT>>, s |-> <<2, 2>>],
                [l |-> <<CompressedNuLT, SingletonLT, SingletonLT>>,
                 s |-> <<2, 2, 1>>] } }

SpecDecode == InitWith(DecodeConfigs) /\ [][Next]_vars

\* The entry of buffer id at index i, or Junk past its end.
At0(h, id, i) ==
  IF id \in DOMAIN h /\ i + 1 \in DOMAIN h[id].data THEN h[id].data[i + 1]
  ELSE Junk

\* The coordinate of entry k of level l.
crdAt(h, stt, d, l, k) ==
  At0(h, getCrdMemRef(stt, d, l),
      k * crdStride(stt, l) + (l - crdFidx(stt, l)))

RECURSIVE decodeLvl(_, _, _, _, _, _)
RECURSIVE decodeRange(_, _, _, _, _, _, _)

\* The pairs below the entries k..hi-1 of level l: the children of a dense
\* parent, or the range of a compressed parent.
decodeRange(h, stt, d, l, k, hi, prefix) ==
  IF k >= hi THEN <<>>
  ELSE decodeLvl(h, stt, d, l + 1, k,
                 Append(prefix, IF isDenseLvl(stt, l)
                                THEN k % getLvlSize(d, l)
                                ELSE crdAt(h, stt, d, l, k)))
         \o decodeRange(h, stt, d, l, k + 1, hi, prefix)

\* The pairs below position pos of level l.
decodeLvl(h, stt, d, l, pos, prefix) ==
  IF l >= getLvlRank(stt)
  THEN <<[c |-> prefix, v |-> At0(h, getValMemRef(d), pos)]>>
  ELSE IF isDenseLvl(stt, l)
       THEN decodeRange(h, stt, d, l, pos * getLvlSize(d, l),
                        (pos + 1) * getLvlSize(d, l), prefix)
       ELSE IF isCompressedLvl(stt, l)
            THEN decodeRange(h, stt, d, l, At0(h, getPosMemRef(d, l), pos),
                             At0(h, getPosMemRef(d, l), pos + 1), prefix)
            ELSE decodeLvl(h, stt, d, l + 1, pos,
                           Append(prefix, crdAt(h, stt, d, l, pos)))

Decode(h, stt, d) == decodeLvl(h, stt, d, 0, 0, <<>>)

\* The inserted pairs in insertion order.
InsertedPairs(log) ==
  [i \in 1..Len(Inserts(log)) |->
     [c |-> Inserts(log)[i].c, v |-> Inserts(log)[i].v]]

\* The run is an allocation, inserts of distinct tuples in lexicographic
\* order, and one finalize.
OrderedThenFinalized ==
  /\ Live(tens.t)
  /\ LastOp(hist.log) = "endInsert"
  /\ Len(Loads(hist.log)) = 1
  /\ \A i \in 1..(Len(Inserts(hist.log)) - 1) :
       LexLT(Inserts(hist.log)[i].c, Inserts(hist.log)[i + 1].c)

\* No two inserted tuples agree on all levels above a singleton level.
SingletonParentsDistinct ==
  \A l \in 1..(getLvlRank(cfg.stt) - 1) :
    isSingletonLvl(cfg.stt, l) =>
      \A i, j \in 1..Len(Inserts(hist.log)) :
        (i # j) => SubSeq(Inserts(hist.log)[i].c, 1, l)
                     # SubSeq(Inserts(hist.log)[j].c, 1, l)

\* Every singleton level directly follows a compressed or singleton level.
SingletonsBelowSparse(stt) ==
  \A l \in Levels(stt) :
    isSingletonLvl(stt, l) => (l > 0 /\ ~isDenseLvl(stt, l - 1))

JustFinalized == Live(tens.t) /\ LastOp(hist.log) = "endInsert"

\* Slot i (from 0) of buffer id is an occupied position slot at index >= 1
\* of a compressed level below level 0 of descriptor d.
IsPatchableSlot(stt, d, id, i) ==
  \E l \in CompressedLevels(stt) :
    /\ l > 0
    /\ id = getPosMemRef(d, l)
    /\ i >= 1
    /\ i < getPosMemSize(d, l)

\* The slots whose content differs between heaps h0 and h.
ChangedSlots(h0, h) ==
  UNION { { <<id, i>> : i \in { j \in 0..(Len(h[id].data) - 1) :
                                   /\ j + 1 \in DOMAIN h0[id].data
                                   /\ h[id].data[j + 1] # h0[id].data[j + 1] } } :
          id \in (DOMAIN h) \cap (DOMAIN h0) }

\* Every buffer keeps its identity and its capacity.
SameBuffers(h0, h) ==
  /\ DOMAIN h = DOMAIN h0
  /\ \A id \in DOMAIN h : h[id] = [h0[id] EXCEPT !.data = h[id].data]
  /\ \A id \in DOMAIN h : Len(h[id].data) = Len(h0[id].data)

\* C22: finalize changes only position slots at index >= 1 of compressed
\* levels below level 0 that hold zero, setting each to the patched value of
\* the preceding slot; every other slot of every buffer and the whole
\* specifier are unchanged, and no error is reported.
C22_FinalizeFrame ==
  JustFinalized =>
    /\ tens.t.d = hist.pre.d
    /\ SameBuffers(hist.pre.heap, heap)
    /\ \A c \in ChangedSlots(hist.pre.heap, heap) :
         /\ IsPatchableSlot(cfg.stt, tens.t.d, c[1], c[2])
         /\ hist.pre.heap[c[1]].data[c[2] + 1] = 0
    /\ \A l \in CompressedLevels(cfg.stt) :
         \A i \in 1..(getPosMemSize(tens.t.d, l) - 1) :
           (l > 0 /\ hist.pre.heap[getPosMemRef(tens.t.d, l)].data[i + 1] = 0)
             => heap[getPosMemRef(tens.t.d, l)].data[i + 1]
                  = heap[getPosMemRef(tens.t.d, l)].data[i]
    /\ ~hist.oob

\* A finalize that patched a zero slot following a non-zero slot.
C22_Witness ==
  /\ JustFinalized
  /\ \E c \in ChangedSlots(hist.pre.heap, heap) :
       /\ c[2] >= 2
       /\ heap[c[1]].data[c[2] + 1] = heap[c[1]].data[c[2]]


\* ------------------------------------------------------------------------
\* The buffers right after the allocation.

JustAllocated == Live(tens.t) /\ LastOp(hist.log) = "alloc"

\* The first level that is not dense, or the rank for an all-dense scheme.
FirstNonDense(stt) ==
  IF isAllDense(stt) THEN getLvlRank(stt)
  ELSE CHOOSE l \in Levels(stt) :
         /\ ~isDenseLvl(stt, l)
         /\ \A k \in 0..(l - 1) : isDenseLvl(stt, k)

\* The product of the sizes of the levels below l.
SizesBelow(d, l) == Product([k \in 1..l |-> getLvlSize(d, k - 1)])

Zeros(n) == [i \in 1..n |-> 0]

\* C23: right after the allocation of a scheme with a level that is not
\* dense, every coordinate array is empty, the positions of a compressed
\* level are one zero, or 1 + (product of the preceding dense sizes) zeros
\* for the first non-dense level, and there are no values; an all-dense
\* scheme has one zero value per element.
C23_FreshBuffers ==
  JustAllocated =>
    IF isAllDense(cfg.stt)
    THEN valArray(heap, tens.t.d)
           = Zeros(SizesBelow(tens.t.d, getLvlRank(cfg.stt)))
    ELSE /\ \A l \in Levels(cfg.stt) :
              ~isDenseLvl(cfg.stt, l) =>
                getCrdMemSize(cfg.stt, tens.t.d, l) = 0
         /\ \A l \in CompressedLevels(cfg.stt) :
              posArray(heap, tens.t.d, l)
                = Zeros(IF l = FirstNonDense(cfg.stt)
                        THEN 1 + SizesBelow(tens.t.d, l) ELSE 1)
         /\ getValMemSize(tens.t.d) = 0

\* A fresh scheme whose first non-dense level is compressed and follows a
\* dense level of size 2.
C23_Witness ==
  /\ JustAllocated
  /\ FirstNonDense(cfg.stt) = 1
  /\ isCompressedLvl(cfg.stt, 1)
  /\ posArray(heap, tens.t.d, 1) = <<0, 0, 0>>


\* ------------------------------------------------------------------------
\* Insertion into an all-dense scheme.

\* The row-major linear index of the first l coordinates of tuple c.
RECURSIVE rowMajor(_, _, _)
rowMajor(d, c, l) ==
  IF l = 0 THEN 0
  ELSE rowMajor(d, c, l - 1) * getLvlSize(d, l - 1) + c[l]

LastEntry(log) == log[Len(log)]

JustInserted == Live(tens.t) /\ LastOp(hist.log) = "insert"

\* C24: on an all-dense scheme an insert stores the value at the row-major
\* linear index of its tuple, overwriting the slot, and changes nothing
\* else: no buffer grows and no occupancy counter changes.
C24_DenseStore ==
  (JustInserted /\ isAllDense(cfg.stt)) =>
    /\ tens.t.d = hist.pre.d
    /\ heap = [hist.pre.heap EXCEPT
         ![getValMemRef(tens.t.d)].data[
            rowMajor(tens.t.d, LastEntry(hist.log).c, getLvlRank(cfg.stt))
              + 1] = LastEntry(hist.log).v]
    /\ ~hist.oob

\* The same tuple inserted twice with two values: the slot holds the last.
C24_Witness ==
  /\ JustInserted
  /\ isAllDense(cfg.stt)
  /\ Len(Inserts(hist.log)) = 2
  /\ Inserts(hist.log)[1].c = <<1, 0>>
  /\ Inserts(hist.log)[2].c = <<1, 0>>
  /\ Inserts(hist.log)[1].v # Inserts(hist.log)[2].v
  /\ valArray(heap, tens.t.d) = <<0, 0, Inserts(hist.log)[2].v, 0>>


\* ------------------------------------------------------------------------
\* The presence test of a unique compressed level.

\* The parent position at level l of the tuple inserted last, read back from
\* the positions the insert left.
LastParentPos(l) ==
  PathPos(heap, tens.t.d, cfg.stt, LastEntry(hist.log).c, l)

\* Position slot i of level l before the insert; a slot the insert itself
\* added starts as zero.
PreSlot(l, i) ==
  IF i < getPosMemSize(hist.pre.d, l)
  THEN At0(hist.pre.heap, getPosMemRef(hist.pre.d, l), i)
  ELSE 0

\* The bounds of the range of parent pp at level l before the insert.
PreStart(l, pp) == PreSlot(l, pp)

PreStop(l, pp) == PreSlot(l, pp + 1)

\* The last coordinate of the parent's range before the insert equals the
\* inserted coordinate.
LastWasSame(l, pp) ==
  /\ PreStart(l, pp) < PreStop(l, pp)
  /\ crdAt(hist.pre.heap, cfg.stt, hist.pre.d, l, PreStop(l, pp) - 1)
       = LastEntry(hist.log).c[l + 1]

\* The coordinates of the parent's range before the insert.
PreRange(l, pp) ==
  { crdAt(hist.pre.heap, cfg.stt, hist.pre.d, l, k) :
      k \in PreStart(l, pp)..(PreStop(l, pp) - 1) }

\* The insert appended no coordinate at level l.
Reused(l) ==
  crdCount(cfg.stt, tens.t.d, l) = crdCount(cfg.stt, hist.pre.d, l)

\* The insert appended its coordinate at level l.
AppendedAt(l) ==
  /\ crdCount(cfg.stt, tens.t.d, l) = crdCount(cfg.stt, hist.pre.d, l) + 1
  /\ crdAt(heap, cfg.stt, tens.t.d, l, crdCount(cfg.stt, tens.t.d, l) - 1)
       = LastEntry(hist.log).c[l + 1]

\* C25: at a unique compressed level an insert reuses the entry exactly
\* when the parent's range is not empty and its last coordinate equals the
\* inserted one; otherwise the coordinate is appended, also when it equals
\* an earlier coordinate of the range.
C25_CompareLastOnly ==
  JustInserted =>
    \A l \in CompressedLevels(cfg.stt) :
      isUniqueLvl(cfg.stt, l) =>
        /\ Reused(l) <=> LastWasSame(l, LastParentPos(l))
        /\ ~Reused(l) => AppendedAt(l)

\* An insert whose coordinate equals an earlier, not the last, coordinate of
\* the parent's range: it is appended again.
C25_Witness ==
  /\ JustInserted
  /\ \E l \in CompressedLevels(cfg.stt) :
       /\ isUniqueLvl(cfg.stt, l)
       /\ LastEntry(hist.log).c[l + 1] \in PreRange(l, LastParentPos(l))
       /\ ~LastWasSame(l, LastParentPos(l))
       /\ AppendedAt(l)


\* ------------------------------------------------------------------------
\* The position entries an insert writes.

PostSlot(l, i) == At0(heap, getPosMemRef(tens.t.d, l), i)

\* The range of parent pp at level l was empty before the insert.
WasEmpty(l, pp) == ~(PreStart(l, pp) < PreStop(l, pp))

\* C26: when the parent's range is empty at a compressed level l > 0, the
\* insert sets position[parentPos] to the coordinate count of the level
\* before the append and position[parentPos + 1] to that count + 1; at
\* level 0 position[parentPos] is not written; the position entries of the
\* other parents are unchanged.
C26_OpenRange ==
  JustInserted =>
    \A l \in CompressedLevels(cfg.stt) :
      /\ WasEmpty(l, LastParentPos(l)) =>
           /\ PostSlot(l, LastParentPos(l))
                = IF l > 0 THEN crdCount(cfg.stt, hist.pre.d, l)
                  ELSE PreSlot(l, LastParentPos(l))
           /\ PostSlot(l, LastParentPos(l) + 1)
                = crdCount(cfg.stt, hist.pre.d, l) + 1
      /\ l = 0 => PostSlot(l, LastParentPos(l)) = PreSlot(l, LastParentPos(l))
      /\ \A i \in 0..(getPosMemSize(tens.t.d, l) - 1) :
           i \notin {LastParentPos(l), LastParentPos(l) + 1}
             => PostSlot(l, i) = PreSlot(l, i)

\* An insert that opens the range of a parent at a level below level 0 when
\* the level already holds a coordinate: the lower bound becomes non-zero.
C26_Witness ==
  /\ JustInserted
  /\ \E l \in CompressedLevels(cfg.stt) :
       /\ l > 0
       /\ WasEmpty(l, LastParentPos(l))
       /\ PreSlot(l, LastParentPos(l)) = 0
       /\ PostSlot(l, LastParentPos(l)) = 1
       /\ PostSlot(l, LastParentPos(l) + 1) = 2


\* ------------------------------------------------------------------------
\* The coordinate count of a singleton level.

\* The number of coordinates level l stores: the occupied slots of its
\* buffer that belong to the level (every slot of a buffer of its own, the
\* slots at the level's offset in an array-of-structures buffer).
storedCrds(stt, d, l) ==
  Cardinality({ i \in 0..(getCrdMemSize(stt, d, l) - 1) :
                  i % crdStride(stt, l) = l - crdFidx(stt, l) })

\* The nearest compressed level above level l, or -1.
NearestCompressed(stt, l) ==
  IF \E k \in 0..(l - 1) : isCompressedLvl(stt, k)
  THEN CHOOSE k \in 0..(l - 1) :
         /\ isCompressedLvl(stt, k)
         /\ \A j \in (k + 1)..(l - 1) : ~isCompressedLvl(stt, j)
  ELSE 0 - 1

\* C27: after any sequence of inserts every singleton level stores as many
\* coordinates as the nearest compressed level above it, also when that
\* level is unique and consecutive inserts repeat its last coordinate.
C27_SingletonCount ==
  Live(tens.t) =>
    \A l \in Levels(cfg.stt) :
      (isSingletonLvl(cfg.stt, l) /\ NearestCompressed(cfg.stt, l) >= 0) =>
        storedCrds(cfg.stt, tens.t.d, l)
          = storedCrds(cfg.stt, tens.t.d, NearestCompressed(cfg.stt, l))

\* The same when the nearest compressed level is not unique.
SingletonCountBelowNonUnique ==
  Live(tens.t) =>
    \A l \in Levels(cfg.stt) :
      (/\ isSingletonLvl(cfg.stt, l)
       /\ NearestCompressed(cfg.stt, l) >= 0
       /\ ~isUniqueLvl(cfg.stt, NearestCompressed(cfg.stt, l))) =>
        storedCrds(cfg.stt, tens.t.d, l)
          = storedCrds(cfg.stt, tens.t.d, NearestCompressed(cfg.stt, l))


\* ------------------------------------------------------------------------
\* A compressed level followed only by dense levels.

\* Level l is compressed and every level below it is dense.
DenseBelow(stt, l) ==
  /\ isCompressedLvl(stt, l)
  /\ l + 1 < getLvlRank(stt)
  /\ \A k \in (l + 1)..(getLvlRank(stt) - 1) : isDenseLvl(stt, k)

\* The product of the sizes of the levels below level l.
TrailingProduct(d, stt, l) ==
  Product([k \in 1..(getLvlRank(stt) - l - 1) |-> getLvlSize(d, l + k)])

\* The value slot of the tuple inserted last: the entry of the compressed
\* level times the trailing product, plus the row-major offset.
LastValueSlot == LastParentPos(getLvlRank(cfg.stt))

PreValue(i) ==
  IF i < getValMemSize(hist.pre.d)
  THEN At0(hist.pre.heap, getValMemRef(hist.pre.d), i)
  ELSE 0

\* C28: with a compressed level l followed only by dense levels, the value
\* count is the coordinate count of l times the product of the trailing
\* dense sizes; an insert that appends a coordinate extends the values by
\* that product of zeros, and the value is stored at (entry of l) * product
\* + row-major offset.
C28_DenseTail ==
  \A l \in Levels(cfg.stt) :
    (Live(tens.t) /\ DenseBelow(cfg.stt, l)) =>
      /\ getValMemSize(tens.t.d)
           = crdCount(cfg.stt, tens.t.d, l) * TrailingProduct(tens.t.d, cfg.stt, l)
      /\ JustInserted =>
           /\ LastValueSlot
                = (At0(heap, getPosMemRef(tens.t.d, l), LastParentPos(l) + 1) - 1)
                    * TrailingProduct(tens.t.d, cfg.stt, l)
                  + rowMajor(tens.t.d,
                             [k \in 1..getLvlRank(cfg.stt) |->
                                IF k <= l + 1 THEN 0
                                ELSE LastEntry(hist.log).c[k]],
                             getLvlRank(cfg.stt))
           /\ \A i \in 0..(getValMemSize(tens.t.d) - 1) :
                At0(heap, getValMemRef(tens.t.d), i)
                  = IF i = LastValueSlot THEN LastEntry(hist.log).v
                    ELSE PreValue(i)
           /\ ~Reused(l) =>
                getValMemSize(tens.t.d)
                  = getValMemSize(hist.pre.d)
                      + TrailingProduct(tens.t.d, cfg.stt, l)

\* The second coordinate appended at the compressed level: the values grow
\* from 2 to 4 and the value lands in the second block.
C28_Witness ==
  /\ JustInserted
  /\ DenseBelow(cfg.stt, 0)
  /\ ~Reused(0)
  /\ getValMemSize(hist.pre.d) = 2
  /\ getValMemSize(tens.t.d) = 4
  /\ LastValueSlot = 3


\* ------------------------------------------------------------------------
\* The COO scheme: one array-of-structures coordinate buffer.

\* A non-unique compressed level 0 followed by singleton levels.
IsCoo(stt) ==
  /\ getLvlRank(stt) >= 2
  /\ getCOOStart(stt) = 0
  /\ ~isUniqueLvl(stt, 0)

\* The tuples of a sequence of inserts, interleaved.
Interleaved(ins, r) ==
  [i \in 1..(Len(ins) * r) |-> ins[((i - 1) \div r) + 1].c[((i - 1) % r) + 1]]

\* C29: for a COO scheme of rank r, after n inserts the positions of level
\* 0 are [0, n], the shared coordinate buffer holds the n tuples interleaved
\* in insertion order with occupied length n * r, and the values are the n
\* values in insertion order.
C29_CooLayout ==
  (Live(tens.t) /\ IsCoo(cfg.stt)) =>
    /\ posArray(heap, tens.t.d, 0) = <<0, Len(Inserts(hist.log))>>
    /\ getCrdMemSize(cfg.stt, tens.t.d, 0)
         = Len(Inserts(hist.log)) * getLvlRank(cfg.stt)
    /\ Prefix(heap, getCrdMemRef(cfg.stt, tens.t.d, 0),
              getCrdMemSize(cfg.stt, tens.t.d, 0))
         = Interleaved(Inserts(hist.log), getLvlRank(cfg.stt))
    /\ valArray(heap, tens.t.d)
         = [i \in 1..Len(Inserts(hist.log)) |-> Inserts(hist.log)[i].v]
    /\ \A l \in Levels(cfg.stt) :
         /\ getCrdMemRef(cfg.stt, tens.t.d, l) = getCrdMemRef(cfg.stt, tens.t.d, 0)
         /\ crdCount(cfg.stt, tens.t.d, l) = Len(Inserts(hist.log))

\* Three inserts into the COO scheme of rank 3, the first coordinate
\* repeated and out of order.
C29_Witness ==
  /\ Live(tens.t)
  /\ IsCoo(cfg.stt)
  /\ getLvlRank(cfg.stt) = 3
  /\ Len(Inserts(hist.log)) = 3
  /\ posArray(heap, tens.t.d, 0) = <<0, 3>>
  /\ Prefix(heap, getCrdMemRef(cfg.stt, tens.t.d, 0), 9)
       = <<1, 0, 0, 0, 1, 0, 1, 0, 0>>


\* ------------------------------------------------------------------------
\* The position array pack builds.

JustPacked == tens.p.state = "live" /\ LastOp(hist.log) = "pack"

\* The position array of the packed tensor.
PackedPositions == heap[tens.p.d.pos[cfg.batched + 1]].data

\* The number of batch slots.
BatchSlots == batchedCount(cfg.stt, cfg.batched)

\* The index of the last non-zero value of batch b of the input, or 0.
LastNonZero(b) ==
  MaxOf({0} \cup { k \in 1..aux.in.nse :
                     aux.in.values[b * aux.in.nse + k] # 0 })

\* C30: the position array pack builds is [0, count] without batch levels,
\* [0, nse, ..., B * nse] for B batch slots with single-offset positions,
\* and for hi/lo-pair positions 2 * B entries, lo = b * nse and hi = lo +
\* nse minus the trailing zero values of batch b.
C30_PackPositions ==
  JustPacked =>
    IF HiLoPairs
    THEN PackedPositions
           = [i \in 1..(2 * BatchSlots) |->
                ((i - 1) \div 2) * aux.in.nse
                  + IF i % 2 = 1 THEN 0 ELSE LastNonZero((i - 1) \div 2)]
    ELSE /\ PackedPositions
              = [i \in 1..(BatchSlots + 1) |-> (i - 1) * aux.in.nse]
         /\ cfg.batched = 0 => PackedPositions = <<0, aux.in.nse>>

\* A pack with hi/lo-pair positions of two batches of two entries, the
\* first batch ending in a zero value.
C30_Witness ==
  /\ JustPacked
  /\ HiLoPairs
  /\ aux.in.nse = 2
  /\ PackedPositions = <<0, 1, 2, 4>>


\* ------------------------------------------------------------------------
\* The scan of populateCompressedWithHiPosArray, one iteration of its
\* scf.while per step.

\* Batched COO with hi/lo-pair positions, of two and of three batches.
ScanConfigs ==
  { PCFG(<<DenseLT, CompressedHiLT, SingletonLT>>, <<2, 2, 2>>, 1),
    PCFG(<<DenseLT, CompressedHiLT, SingletonLT>>, <<3, 2, 2>>, 1) }

\* The value the scan loads at index i (from 0) of batch crd.
batchValue(values, nse, crd, i) == values[crd * nse + i + 1]

\* A variant without the test for a length of zero; a load outside the
\* values sees a zero.
scanContinues_NoLenTest(values, nse, crd, len) ==
  IF crd * nse + len \in DOMAIN values
  THEN batchValue(values, nse, crd, len - 1) = 0
  ELSE TRUE

\* The before region of the scf.while: false when len = 0, otherwise
\* whether the value at len - 1 of the batch equals zero.
scanContinues(values, nse, crd, len) ==
  IF len = 0 THEN FALSE ELSE batchValue(values, nse, crd, len - 1) = 0

\* The scan of batch crd starts with len = nse.
scanOf(crd, nse, pos) ==
  [crd |-> crd, len |-> nse, iters |-> 0, reads |-> {}, pos |-> pos]

\* The loop nest is entered for the first batch.
ScanStart(values, nse) ==
  /\ tens.p.state = "none"
  /\ tens' = [tens EXCEPT !.p.state = "loading"]
  /\ aux' = [aux EXCEPT !.in = [values |-> values, nse |-> nse],
                        !.out = scanOf(0, nse, <<>>)]
  /\ Record([op |-> "scan"], FALSE)
  /\ UNCHANGED <<cfg, heap>>

ScanStartAny ==
  \E nse \in 0..MaxNse :
    \E values \in [1..(batchedCount(cfg.stt, cfg.batched) * nse)
                     -> PackValues] :
      ScanStart(values, nse)

\* The indices the before region loads at length len.
scanReads(len) == IF len = 0 THEN {} ELSE {len - 1}

\* One iteration: the condition holds and the after region decrements len.
ScanIter ==
  /\ tens.p.state = "loading"
  /\ scanContinues(aux.in.values, aux.in.nse, aux.out.crd, aux.out.len)
  /\ aux' = [aux EXCEPT !.out.len = @ - 1,
                        !.out.iters = @ + 1,
                        !.out.reads = @ \cup scanReads(aux.out.len)]
  /\ UNCHANGED <<cfg, heap, tens, hist>>

\* The positions after the pair of the current batch is stored.
scanStored(out, nse) ==
  out.pos \o <<out.crd * nse, out.crd * nse + out.len>>

\* The loop exits: pLo and pHi are stored and the loop nest goes on to the
\* next batch, or ends after the last one.
ScanExit ==
  /\ tens.p.state = "loading"
  /\ ~scanContinues(aux.in.values, aux.in.nse, aux.out.crd, aux.out.len)
  /\ IF aux.out.crd + 1 < batchedCount(cfg.stt, cfg.batched)
     THEN /\ aux' = [aux EXCEPT !.out = scanOf(aux.out.crd + 1, aux.in.nse,
                                               scanStored(aux.out, aux.in.nse))]
          /\ UNCHANGED tens
     ELSE /\ aux' = [aux EXCEPT !.out.pos = scanStored(aux.out, aux.in.nse)]
          /\ tens' = [tens EXCEPT !.p.state = "live"]
  /\ UNCHANGED <<cfg, heap, hist>>

NextScan == ScanStartAny \/ ScanIter \/ ScanExit

SpecScan == InitWith(ScanConfigs) /\ [][NextScan]_vars /\ WF_vars(NextScan)

Scanning == tens.p.state = "loading"

ScanDone == tens.p.state = "live"

\* The running length is nse minus the iterations done, is never below 0,
\* and only indices in [0, nse) of the batch were read.
ScanBounded ==
  Scanning =>
    /\ aux.out.len = aux.in.nse - aux.out.iters
    /\ aux.out.len >= 0
    /\ aux.out.reads \subseteq 0..(aux.in.nse - 1)
    /\ scanReads(aux.out.len) \subseteq 0..(aux.in.nse - 1)

\* The pairs the scan stored are the ones of the pack.
ScanMatchesPack ==
  ScanDone =>
    aux.out.pos
      = [i \in 1..(2 * BatchSlots) |->
           ((i - 1) \div 2) * aux.in.nse
             + IF i % 2 = 1 THEN 0 ELSE LastNonZero((i - 1) \div 2)]

\* C31: the trailing-zero scan of pack terminates for every batch content:
\* the running length starts at nse, decreases by one per iteration, never
\* goes below 0, the scan reads only value indices in [0, nse) of the
\* current batch, and the loop nest ends.
C31_ScanTerminates == []ScanBounded /\ <>ScanDone

\* The scan of an all-zero batch of two values ran down to length 0.
C31_Witness ==
  /\ Scanning
  /\ aux.in.nse = 2
  /\ aux.out.iters = 2
  /\ aux.out.len = 0
  /\ aux.out.reads = {0, 1}


\* ------------------------------------------------------------------------
\* The results of a batched unpack.

JustUnpacked == LastOp(hist.log) = "unpack"

\* The trailing size the results were requested with.
RequestedLen == LastEntry(hist.log).len

\* The step of the position index per batch.
PosStep == IF HiLoPairs THEN 2 ELSE 1

\* The range of batch b as the unpack read it from the positions.
BatchLo(b) ==
  At0(hist.pre.heap, getPosMemRef(tens.p.d, cfg.batched), b * PosStep)

BatchHi(b) ==
  At0(hist.pre.heap, getPosMemRef(tens.p.d, cfg.batched), b * PosStep + 1)

\* The number of levels that are not batch levels.
UnbatchedRank == getLvlRank(cfg.stt) - cfg.batched

\* Element k of the slot of batch b in a result with w elements per entry,
\* copied from buffer id.
SlotElement(id, b, k, w) ==
  IF k < (BatchHi(b) - BatchLo(b)) * w
  THEN At0(hist.pre.heap, id, BatchLo(b) * w + k)
  ELSE 0

\* The result with w elements per entry copied from buffer id.
ExpectedResult(id, w) ==
  [i \in 1..(BatchSlots * RequestedLen * w) |->
     SlotElement(id, (i - 1) \div (RequestedLen * w),
                 (i - 1) % (RequestedLen * w), w)]

\* C32: a batched unpack reads the range [lo, hi) of every batch at index
\* b * step of the positions and the index after it, copies hi - lo values
\* and (hi - lo) * rank coordinates into the slot of the batch, leaves every
\* other element of the results zero and returns the largest hi - lo.
C32_BatchedUnpack ==
  (JustUnpacked /\ cfg.batched > 0) =>
    /\ aux.out.values = ExpectedResult(getValMemRef(tens.p.d), 1)
    /\ aux.out.coordinates
         = ExpectedResult(flatCrds(cfg.stt, tens.p.d, UnbatchedRank),
                          UnbatchedRank)
    /\ aux.out.nse
         = MaxOf({BatchHi(b) - BatchLo(b) : b \in 0..(BatchSlots - 1)})

\* An unpack with hi/lo-pair positions whose batches hold one and two
\* entries: the slot of the first batch keeps a zero tuple.
C32_Witness ==
  /\ JustUnpacked
  /\ HiLoPairs
  /\ RequestedLen = 2
  /\ BatchHi(0) - BatchLo(0) = 1
  /\ BatchHi(1) - BatchLo(1) = 2
  /\ aux.out.nse = 2
  /\ SubSeq(aux.out.coordinates, 3, 4) = <<0, 0>>


\* ------------------------------------------------------------------------
\* The results of an unbatched unpack.

\* Result q has n elements and starts with the elements buffer id had
\* before the unpack, as far as the buffer went.
KeepsPrefix(q, id, n) ==
  /\ Len(q) = n
  /\ \A i \in 1..n :
       i <= capacity(hist.pre.heap, id) => q[i] = hist.pre.heap[id].data[i]

\* The buffers the unpack had to reallocate for n values.
Grown(n) ==
  { id \in {getValMemRef(tens.p.d)} : n > capacity(hist.pre.heap, id) }
    \cup { id \in {flatCrds(cfg.stt, tens.p.d, getLvlRank(cfg.stt))} :
             n * getLvlRank(cfg.stt) > capacity(hist.pre.heap, id) }

\* C33: an unbatched unpack with requested length len returns len values
\* and len * rank coordinates that keep the contents of the buffers as a
\* prefix; a buffer is reallocated exactly when the requested length
\* exceeds its length, otherwise the result is a view of it; the count is
\* the value occupancy of the instance, whatever len is.
C33_UnbatchedUnpack ==
  (JustUnpacked /\ cfg.batched = 0) =>
    /\ KeepsPrefix(aux.out.values, getValMemRef(tens.p.d), RequestedLen)
    /\ KeepsPrefix(aux.out.coordinates,
                   flatCrds(cfg.stt, tens.p.d, getLvlRank(cfg.stt)),
                   RequestedLen * getLvlRank(cfg.stt))
    /\ Len(heap) = Len(hist.pre.heap) + Cardinality(Grown(RequestedLen))
    /\ \A id \in Grown(RequestedLen) :
         heap[id].frees = hist.pre.heap[id].frees + 1
    /\ aux.out.nse = getValMemSize(tens.p.d)
    /\ aux.out.nse = aux.in.nse

\* An unpack that asks for one entry more than the two packed entries of a
\* COO tensor: both buffers are reallocated and the count stays 2.
C33_Witness ==
  /\ JustUnpacked
  /\ cfg.batched = 0
  /\ getLvlRank(cfg.stt) = 2
  /\ aux.in.nse = 2
  /\ RequestedLen = 3
  /\ Cardinality(Grown(RequestedLen)) = 2
  /\ SubSeq(aux.out.values, 1, 2) = aux.in.values
  /\ aux.out.nse = 2


\* ------------------------------------------------------------------------
\* The result of a conversion that applies.

\* The memref fields of the tensor type: kind, level, and the widths of the
\* field in the source and in the result.
ConvertedFields(stt, encSrc, e) ==
  { [kind |-> "pos", l |-> l, from |-> encSrc.posWidth, to |-> e.enc.posWidth] :
      l \in { k \in Levels(stt) : hasPosField(stt, k) } }
  \cup
  { [kind |-> "crd", l |-> l, from |-> encSrc.crdWidth, to |-> e.enc.crdWidth] :
      l \in { k \in Levels(stt) : hasCrdField(stt, k) } }
  \cup { [kind |-> "val", l |-> 0, from |-> SrcElemWidth, to |-> e.elem] }

\* Buffer dst of heap h1 is new and holds the elements of buffer src of heap
\* h0, cast when the widths differ.
IsConvertedCopy(h0, h1, src, dst, from, to) ==
  /\ dst \notin DOMAIN h0
  /\ dst \in DOMAIN h1
  /\ h1[dst].data
       = [i \in 1..capacity(h0, src) |->
            IF from # to THEN genCast(h0[src].data[i], to)
            ELSE h0[src].data[i]]

\* C34: a conversion that applies returns the source itself when the
\* element type and the encoding are identical; otherwise the result has a
\* new buffer for every buffer of the source, of the same capacity, each
\* element copied, or cast when the buffer type differs, and the specifier
\* of the source; the buffers and the specifier of the source are unchanged.
C34_ConvertCopies ==
  [][(Converted /\ tens'.c.state = "live") =>
       LET e == hist'.log[Len(hist'.log)]
           src == tens[e.h].d
           dst == tens'.c.d
           encSrc == getSparseTensorEncoding(cfg.stt, e.h)
       IN /\ tens'.t = tens.t
          /\ tens'.v = tens.v
          /\ SubSeq(heap', 1, Len(heap)) = heap
          /\ IF e.elem = SrcElemWidth /\ e.enc = encSrc
             THEN dst = src /\ heap' = heap
             ELSE /\ dst.spec = src.spec
                  /\ Len(heap') = Len(heap)
                       + Cardinality(ConvertedFields(cfg.stt, encSrc, e))
                  /\ \A f \in ConvertedFields(cfg.stt, encSrc, e) :
                       IsConvertedCopy(heap, heap',
                         getMemRefField(cfg.stt, src, f.kind, f.l),
                         getMemRefField(cfg.stt, dst, f.kind, f.l),
                         f.from, f.to)
                  /\ \A f, g \in ConvertedFields(cfg.stt, encSrc, e) :
                       (f # g) =>
                         getMemRefField(cfg.stt, dst, f.kind, f.l)
                           # getMemRefField(cfg.stt, dst, g.kind, g.l)]_vars

\* A conversion to narrow coordinates after two inserts: the values are
\* copied into a new buffer, the coordinates are cast into a new buffer.
C34_Witness ==
  /\ tens.c.state = "live"
  /\ LastOp(hist.log) = "convert"
  /\ LastEntry(hist.log).enc.crdWidth = NarrowWidth
  /\ LastEntry(hist.log).elem = SrcElemWidth
  /\ Len(Inserts(hist.log)) = 2
  /\ getValMemRef(tens.c.d) # getValMemRef(tens.t.d)
  /\ valArray(heap, tens.c.d) = valArray(heap, tens.t.d)
  /\ tens.c.d.spec = tens.t.d.spec


\* ------------------------------------------------------------------------
\* The data of a COO tensor loaded from a file.

\* The sizes are set: the load is past its last write to the tensor.
SizesSet ==
  /\ newMatches(cfg.stt)
  /\ LastOp(hist.log) \in {"setSpecifier", "delSparseTensorReader"}

\* The entries of the file in file order; the k-th entry has value k.
FileEntries ==
  [k \in 1..Len(aux.rd.reader.file.crds) |->
     [c |-> aux.rd.reader.file.crds[k], v |-> k]]

\* The entries of the tensor.
LoadedEntries ==
  cooEntries(heap, Len(aux.rd.reader.file.crds),
             getAOSMemRef(cfg.stt, tens.t.d), getValMemRef(tens.t.d),
             getLvlRank(cfg.stt))

\* Sequence q holds the entries of sequence p in ascending order.
IsSortedCopy(q, p) ==
  /\ Len(q) = Len(p)
  /\ \A e \in {p[i] : i \in DOMAIN p} :
       Cardinality({i \in DOMAIN q : q[i] = e})
         = Cardinality({i \in DOMAIN p : p[i] = e})
  /\ \A i \in 1..(Len(q) - 1) : LexLE(q[i].c, q[i + 1].c)

\* The load has to sort: the innermost level is ordered and the reader
\* reported the data as not sorted.
MustSort ==
  /\ isOrderedLvl(cfg.stt, getLvlRank(cfg.stt) - 1)
  /\ ~readIsSorted(aux.rd.reader)

\* C35: a load sorts the data exactly when the innermost level of the
\* destination is ordered and the reader reported the data as not sorted;
\* afterwards the positions of level 0 are [0, nse], the coordinate
\* occupancy is nse * rank and the value occupancy is nse; a destination
\* that is not a COO from level 0 is refused.
C35_LoadSorts ==
  /\ SizesSet =>
       /\ IF MustSort THEN IsSortedCopy(LoadedEntries, FileEntries)
          ELSE LoadedEntries = FileEntries
       /\ posArray(heap, tens.t.d, 0) = <<0, Len(aux.rd.reader.file.crds)>>
       /\ getCrdMemSize(cfg.stt, tens.t.d, 0)
            = Len(aux.rd.reader.file.crds) * getLvlRank(cfg.stt)
       /\ getValMemSize(tens.t.d) = Len(aux.rd.reader.file.crds)
  /\ ~newMatches(cfg.stt) =>
       /\ tens.t.state \in {"none", "failed"}
       /\ heap = <<>>
       /\ aux.rd = <<>>

\* A completed load of two entries in descending order into an ordered
\* COO: the tensor holds them in ascending order.
C35_Witness ==
  /\ SizesSet
  /\ Live(tens.t)
  /\ MustSort
  /\ Len(FileEntries) = 2
  /\ LoadedEntries = <<FileEntries[2], FileEntries[1]>>


\* ------------------------------------------------------------------------
\* The occupancy counters of a packed tensor.

\* C36: right after a pack the specifier agrees with the buffers: the
\* coordinate occupancy of the shared coordinate buffer is the number of
\* stored entries times the rank of the COO region (the length of the
\* coordinate array), the value occupancy is the number of stored values,
\* and the position occupancy of the compressed level is the number of
\* position entries written; these are the counters a file load or the
\* inserts of the same data leave.
C36_PackCounters ==
  JustPacked =>
    /\ getCrdMemSize(cfg.stt, tens.p.d, cfg.batched)
         = Len(aux.in.coordinates)
    /\ getValMemSize(tens.p.d) = Len(aux.in.values)
    /\ getPosMemSize(tens.p.d, cfg.batched) = Len(PackedPositions)


\* ------------------------------------------------------------------------
\* Two finalizations in a row.

\* sparse_tensor.load with inserts on a tensor whose last operation was
\* such a load.
EndInsertAgain ==
  /\ Live(tens.t)
  /\ ~endInsertStops(cfg.stt)
  /\ Len(Loads(hist.log)) <= MaxLoads
  /\ LastOp(hist.log) = "endInsert"
  /\ LastOp(SubSeq(hist.log, 1, Len(hist.log) - 1)) # "endInsert"
  /\ LET s == genEndInsert(ST(heap, tens.t.d, FALSE), cfg.stt)
     IN /\ heap' = s.heap
        /\ tens' = [tens EXCEPT !.t.d = s.d]
        /\ Record([op |-> "endInsert"], s.oob)
  /\ UNCHANGED <<cfg, aux>>

NextAgain == AllocAny \/ InsertAny \/ EndInsert \/ EndInsertAgain

SpecAgain == Init /\ [][NextAgain]_vars

\* The last two operations were finalizations.
FinalizedTwice ==
  /\ Live(tens.t)
  /\ LastOp(hist.log) = "endInsert"
  /\ LastOp(SubSeq(hist.log, 1, Len(hist.log) - 1)) = "endInsert"

\* C37: a finalization right after a finalization leaves the position
\* array of every compressed level as the first one left it, whatever
\* inserts and finalizations came before.
C37_FinalizeIdempotent ==
  FinalizedTwice =>
    /\ \A l \in CompressedLevels(cfg.stt) :
         posArray(heap, tens.t.d, l)
           = posArray(hist.pre.heap, hist.pre.d, l)
    /\ heap = hist.pre.heap
    /\ tens.t.d = hist.pre.d

\* Two finalizations in a row, the first of which rewrote a position.
C37_Witness ==
  /\ FinalizedTwice
  /\ \E l \in CompressedLevels(cfg.stt) :
       posArray(hist.pre.heap, hist.pre.d, l)
         # posArray(hist.pre2.heap, hist.pre2.d, l)


\* ------------------------------------------------------------------------
\* Inserts after a finalization.

\* One operation of the log applied to s.
redo(s, stt, e) ==
  CASE e.op = "alloc" ->
         createAllocFields(s.heap, stt, e.dyn, FALSE, e.hint)
    [] e.op = "insert" -> genImplementation(s, stt, e.c, e.v)
    [] OTHER -> genEndInsert(s, stt)

\* The operations ops[i..] applied to s. The test on s.oob is always
\* false; it evaluates each step before the next one is applied.
RECURSIVE redoFrom(_, _, _, _)
redoFrom(s, stt, ops, i) ==
  IF i > Len(ops) \/ s.oob \notin BOOLEAN THEN s
  ELSE redoFrom(redo(s, stt, ops[i]), stt, ops, i + 1)

Rebuilt(ops) == redoFrom(ST(<<>>, <<>>, FALSE), cfg.stt, ops, 1)

\* The index of the first finalization of the log.
FirstLoad(log) ==
  CHOOSE k \in 1..Len(log) :
    /\ log[k].op = "endInsert"
    /\ \A j \in 1..(k - 1) : log[j].op # "endInsert"

\* The log without its first finalization: S1, S2, finalize.
OnePhase(log) ==
  SubSeq(log, 1, FirstLoad(log) - 1)
    \o SubSeq(log, FirstLoad(log) + 1, Len(log))

\* The run was S1, finalize, S2, finalize with S1 S2 in append order.
Reentered ==
  /\ Live(tens.t)
  /\ LastOp(hist.log) = "endInsert"
  /\ Len(Loads(hist.log)) = 2
  /\ AppendOrder(hist.log)

StaleSlot(l, i) ==
  LET before == Rebuilt(SubSeq(hist.log, 1, FirstLoad(hist.log) - 1))
      after == genEndInsert(before, cfg.stt)
  IN /\ i <= getPosMemSize(before.d, l)
     /\ before.heap[getPosMemRef(before.d, l)].data[i] = 0
     /\ after.heap[getPosMemRef(after.d, l)].data[i] # 0
     /\ heap[getPosMemRef(tens.t.d, l)].data[i]
          = after.heap[getPosMemRef(after.d, l)].data[i]

====
